---- MODULE Spec2Model ----
(***************************************************************************)
(* Resource enhancement normalisation pipeline of idea-pilot.              *)
(*                                                                         *)
(* Two versions of ResourceService.processResources are modelled:          *)
(*   - the mapper-based one (src/unnamed/part_002), which maps every       *)
(*     backend record through mapBackendResourceToFrontendType;            *)
(*   - the inline-fallback one (src/src/services/resourceService.ts,       *)
(*     lines 20-270), which builds its fallback records inline and         *)
(*     returns a well-formed payload untouched.                            *)
(*                                                                         *)
(* Spec is one invocation of either version. SpecMapper and SpecFallback   *)
(* apply mapBackendResourceToFrontendType and createFallbackResource to    *)
(* inputs of their own; SpecConcurrent interleaves two invocations of the  *)
(* mapper-based version.                                                   *)
(*                                                                         *)
(* JavaScript values are tagged records [t, v] so that the untyped backend *)
(* payload (absent, null, wrong-typed fields) can be represented.          *)
(***************************************************************************)
EXTENDS Integers, Sequences, FiniteSets, TLC

VARIABLES pc, service, urls, projectContext, projectId,
          requests, response, bodyRead, result,
          helper, args, ret, calls, state

vars == <<pc, service, urls, projectContext, projectId,
          requests, response, bodyRead, result,
          helper, args, ret, calls, state>>

---------------------------------------------------------------------------
(* Bounds of the model.                                                    *)

\* longest list of input URLs handed to processResources
MaxUrls == 2

\* longest enhanced_resources list the backend answers with
MaxBackend == 2

\* calls of createFallbackResource with one url that are compared
MaxCalls == 2

\* longest stored list the backend answers getEnhancedResources with
MaxStored == 2

\* calls of the hook's processResources in one life of the hook
MaxHookCalls == 2

\* runs of generateProject in one life of the form
MaxRuns == 2

\* milestones of a project shown in the card
MaxMilestones == 2

---------------------------------------------------------------------------
(* JavaScript values.                                                      *)

Undef == [t |-> "undefined", v |-> 0]

Null == [t |-> "null", v |-> 0]

NaN == [t |-> "NaN", v |-> 0]

Bool(b) == [t |-> "boolean", v |-> b]

Num(n) == [t |-> "number", v |-> n]

Str(s) == [t |-> "string", v |-> s]

Arr(s) == [t |-> "array", v |-> s]

Obj(r) == [t |-> "object", v |-> r]

Nullish(x) == x.t \in {"undefined", "null"}

\* ToBoolean
Truthy(x) ==
  CASE x.t \in {"undefined", "null", "NaN"} -> FALSE
    [] x.t = "boolean" -> x.v
    [] x.t = "number" -> x.v # 0
    [] x.t = "string" -> x.v # ""
    [] OTHER -> TRUE

\* variant: the default is never taken
Or_NoDefault(a, b) == a

\* a || b
Or(a, b) == IF Truthy(a) THEN a ELSE b

\* o.f on a value that is neither null nor undefined
Get(o, f) == IF o.t = "object" /\ f \in DOMAIN o.v THEN o.v[f] ELSE Undef

\* o?.f
OptGet(o, f) == IF Nullish(o) THEN Undef ELSE Get(o, f)

\* Array.isArray
IsArray(x) == x.t = "array"

\* Math.floor(x * 1000) for an integral number of seconds
FloorTimes1000(x) == IF x.t = "number" THEN Num(x.v * 1000) ELSE NaN

\* outcome of evaluating an expression that may throw
Normal(val) == [threw |-> FALSE, value |-> val]

Thrown(msg) == [threw |-> TRUE, message |-> msg]

---------------------------------------------------------------------------
(* Environment: clock, random source, URL parser.                          *)

\* values Date.now() returns during a run
Times == {7001, 7002}

\* the k-th Math.random() value drawn while one result is built; the values
\* only ever end up inside record ids
Random(k) == k

\* the i-th character of a string
Char(s, i) == SubSeq(s, i, i)

\* index of the first character of s at or after from that lies in C, or
\* Len(s) + 1 when there is none
FirstIndex(s, C, from) ==
  IF \E i \in from..Len(s) : Char(s, i) \in C
  THEN CHOOSE i \in from..Len(s) :
         /\ Char(s, i) \in C
         /\ \A j \in from..(i - 1) : Char(s, j) \notin C
  ELSE Len(s) + 1

\* index of the last character of s that lies in C, or 0
LastIndex(s, C) ==
  IF \E i \in 1..Len(s) : Char(s, i) \in C
  THEN CHOOSE i \in 1..Len(s) :
         /\ Char(s, i) \in C
         /\ \A j \in (i + 1)..Len(s) : Char(s, j) \notin C
  ELSE 0

Alpha ==
  {"a", "b", "c", "d", "e", "f", "g", "h", "i", "j", "k", "l", "m",
   "n", "o", "p", "q", "r", "s", "t", "u", "v", "w", "x", "y", "z"}

Digit == {"0", "1", "2", "3", "4", "5", "6", "7", "8", "9"}

\* schemes whose URLs must have a host
SpecialSchemes == {"http", "https", "ftp", "ws", "wss"}

\* characters a host may not contain
ForbiddenHostChars == {" ", "<", ">", "[", "]", "^", "|", "%", "\\", "/", "?", "#", "@", ":"}

\* the host of an authority "userinfo@host:port": what follows the last "@",
\* up to the port; a port that is not a number or a forbidden character in
\* the host makes the parser fail
ParseAuthority(authority, hostRequired) ==
  LET hostport == SubSeq(authority, LastIndex(authority, {"@"}) + 1, Len(authority))
      colon == FirstIndex(hostport, {":"}, 1)
      host == SubSeq(hostport, 1, colon - 1)
      port == SubSeq(hostport, colon + 1, Len(hostport))
  IN
  IF \E i \in 1..Len(port) : Char(port, i) \notin Digit THEN Thrown("Invalid URL")
  ELSE IF \E i \in 1..Len(host) : Char(host, i) \in ForbiddenHostChars THEN Thrown("Invalid URL")
  ELSE IF hostRequired /\ host = "" THEN Thrown("Invalid URL")
  ELSE Normal(host)

\* new URL(s).hostname, for lower-case ASCII input without a base URL: the
\* constructor throws unless s starts with a scheme; after a special scheme
\* any run of slashes precedes the authority, which ends at the next "/",
\* "\", "?" or "#"; other schemes have an authority only after "//"
ParseURL(s) ==
  LET colon == FirstIndex(s, {":"}, 1)
      scheme == SubSeq(s, 1, colon - 1)
      validScheme ==
        /\ colon <= Len(s)
        /\ colon > 1
        /\ Char(s, 1) \in Alpha
        /\ \A i \in 1..(colon - 1) : Char(s, i) \in Alpha \cup Digit \cup {"+", "-", "."}
      rest == SubSeq(s, colon + 1, Len(s))
  IN
  IF ~validScheme THEN Thrown("Invalid URL")
  ELSE IF scheme \in SpecialSchemes
  THEN LET start == IF \E i \in 1..Len(rest) : Char(rest, i) \notin {"/", "\\"}
                    THEN CHOOSE i \in 1..Len(rest) :
                           /\ Char(rest, i) \notin {"/", "\\"}
                           /\ \A j \in 1..(i - 1) : Char(rest, j) \in {"/", "\\"}
                    ELSE Len(rest) + 1
            stop == FirstIndex(rest, {"/", "\\", "?", "#"}, start)
       IN ParseAuthority(SubSeq(rest, start, stop - 1), TRUE)
  ELSE IF Len(rest) >= 2 /\ SubSeq(rest, 1, 2) = "//"
  THEN ParseAuthority(SubSeq(rest, 3, FirstIndex(rest, {"/", "?", "#"}, 3) - 1), FALSE)
  ELSE Normal("")

\* variant: a string that does not parse is used as it is
Hostname_Unparsed(url) ==
  IF url.t = "string" /\ ~ParseURL(url.v).threw
  THEN ParseURL(url.v).value
  ELSE IF url.t = "string" THEN url.v ELSE "unknown"

\* (() => { try { return new URL(url).hostname; } catch { return 'unknown'; } })()
Hostname(url) ==
  IF url.t = "string" /\ ~ParseURL(url.v).threw
  THEN ParseURL(url.v).value
  ELSE "unknown"

\* the URL strings a caller passes
URLS == {"https://a.com/x", "not a url"}

---------------------------------------------------------------------------
(* Fallback records of the inline-fallback version: the same record shape  *)
(* written out in each of its four failure branches, which differ only in  *)
(* the five texts passed here.                                             *)

inlineFallbackResource(url, content, overview, pitfall, summary, guidance, now, rnd) ==
  [ id |-> [prefix |-> "fallback", now |-> now, random |-> rnd],
    original_data |->
      [ url |-> url,
        title |-> Str("Resource from " \o Hostname(url)),
        description |-> Str("Resource unavailable - visit link directly"),
        content |-> content,
        sections |-> Arr(<<>>),
        word_count |-> Num(0),
        scraped_at |-> Num(now) ],
    enhanced_resource |->
      [ title |-> Str("Resource from " \o Hostname(url)),
        overview |-> Str(overview),
        learning_objectives |-> Arr(<<Str("Visit the resource directly to understand the content")>>),
        key_concepts |-> Arr(<<Obj([concept |-> Str("External Resource"),
                                    explanation |-> Str("This resource requires direct access"),
                                    example |-> Str("Click the source link to view the content")])>>),
        practical_applications |-> Arr(<<Str("Visit the resource for practical information")>>),
        common_pitfalls |-> Arr(<<Obj([pitfall |-> Str(pitfall),
                                       solution |-> Str("Visit the source link directly")])>>),
        next_steps |-> Arr(<<Str("Access the resource directly via the source link")>>),
        difficulty_level |-> Str("Beginner"),
        estimated_reading_time |-> Str("Unknown"),
        original_url |-> url,
        source_title |-> Str("External Resource"),
        word_count |-> Num(0) ],
    mentor_context |->
      [ resource_summary |-> Str(summary),
        key_topics |-> Arr(<<Str("External Resource")>>),
        sample_questions |-> Arr(<<Str("What is this resource about?"),
                                   Str("How can I access this content?"),
                                   Str("Is there an alternative resource?")>>),
        key_concepts |-> Arr(<<Str("External Resource Access")>>),
        mentor_guidance |-> Str(guidance),
        resource_title |-> Str("Resource from " \o Hostname(url)),
        resource_url |-> url ],
    processed_at |-> Num(now) ]

---------------------------------------------------------------------------
(* createFallbackResource (mapper-based version).                          *)

\* variant: the guidance is a fixed text, as in the inline-fallback version
createFallbackResource_FixedGuidance(url, error, now, rnd) ==
  inlineFallbackResource(url, error,
    "This resource could not be processed automatically. Please visit the link directly for the content.",
    "Resource not accessible",
    "External resource that requires direct access",
    "This resource could not be processed automatically. Please visit the source link directly.",
    now, rnd)

\* variant: the overview text names the cause
createFallbackResource_CauseInOverview(url, error, now, rnd) ==
  inlineFallbackResource(url, error,
    "This resource could not be processed automatically: " \o error.v,
    "Resource not accessible",
    "External resource that requires direct access",
    error.v,
    now, rnd)

createFallbackResource(url, error, now, rnd) ==
  [ id |-> [prefix |-> "fallback", now |-> now, random |-> rnd],
    original_data |->
      [ url |-> url,
        title |-> Str("Resource from " \o Hostname(url)),
        description |-> Str("Resource unavailable - visit link directly"),
        content |-> error,
        sections |-> Arr(<<>>),
        word_count |-> Num(0),
        scraped_at |-> Num(now) ],
    enhanced_resource |->
      [ title |-> Str("Resource from " \o Hostname(url)),
        overview |-> Str("This resource could not be processed automatically. Please visit the link directly for the content."),
        learning_objectives |-> Arr(<<Str("Visit the resource directly to understand the content")>>),
        key_concepts |-> Arr(<<Obj([concept |-> Str("External Resource"),
                                    explanation |-> Str("This resource requires direct access"),
                                    example |-> Str("Click the source link to view the content")])>>),
        practical_applications |-> Arr(<<Str("Visit the resource for practical information")>>),
        common_pitfalls |-> Arr(<<Obj([pitfall |-> Str("Resource not accessible"),
                                       solution |-> Str("Visit the source link directly")])>>),
        next_steps |-> Arr(<<Str("Access the resource directly via the source link")>>),
        difficulty_level |-> Str("Beginner"),
        estimated_reading_time |-> Str("Unknown"),
        original_url |-> url,
        source_title |-> Str("External Resource"),
        word_count |-> Num(0) ],
    mentor_context |->
      [ resource_summary |-> Str("External resource that requires direct access"),
        key_topics |-> Arr(<<Str("External Resource")>>),
        sample_questions |-> Arr(<<Str("What is this resource about?"),
                                   Str("How can I access this content?"),
                                   Str("Is there an alternative resource?")>>),
        key_concepts |-> Arr(<<Str("External Resource Access")>>),
        mentor_guidance |-> error,
        resource_title |-> Str("Resource from " \o Hostname(url)),
        resource_url |-> url ],
    processed_at |-> Num(now) ]

---------------------------------------------------------------------------
(* mapBackendResourceToFrontendType.                                       *)

\* variant: the fields of a structured entry are copied without defaults
MapConcept_NoDefaults(concept) ==
  IF concept.t = "string"
  THEN Normal(Obj([concept |-> concept,
                   explanation |-> Str("Learn about " \o concept.v),
                   example |-> Str("Example of " \o concept.v)]))
  ELSE IF Nullish(concept)
  THEN Thrown("Cannot read properties of " \o concept.t \o " (reading 'concept')")
  ELSE Normal(Obj([concept |-> Get(concept, "concept"),
                   explanation |-> Get(concept, "explanation"),
                   example |-> Get(concept, "example")]))

\* typeof concept === 'string' ? ... : concept.<field> || <default>, for the
\* three fields of one key_concepts entry; reading a property of null throws
MapConcept(concept) ==
  IF concept.t = "string"
  THEN Normal(Obj([concept |-> concept,
                   explanation |-> Str("Learn about " \o concept.v),
                   example |-> Str("Example of " \o concept.v)]))
  ELSE IF Nullish(concept)
  THEN Thrown("Cannot read properties of " \o concept.t \o " (reading 'concept')")
  ELSE Normal(Obj([concept |-> Or(Get(concept, "concept"), Str("Unknown Concept")),
                   explanation |-> Or(Get(concept, "explanation"), Str("No explanation available")),
                   example |-> Or(Get(concept, "example"), Str("No example available"))]))

\* (enhanced_content?.key_concepts || []).map(...)
MapKeyConcepts(kc) ==
  LET list == Or(kc, Arr(<<>>)) IN
  IF ~IsArray(list)
  THEN Thrown("(intermediate value).map is not a function")
  ELSE IF \E i \in 1..Len(list.v) : MapConcept(list.v[i]).threw
  THEN LET first == CHOOSE i \in 1..Len(list.v) :
                      /\ MapConcept(list.v[i]).threw
                      /\ \A j \in 1..(i-1) : ~MapConcept(list.v[j]).threw
       IN MapConcept(list.v[first])
  ELSE Normal(Arr([i \in 1..Len(list.v) |-> MapConcept(list.v[i]).value]))

\* variant: the pitfall list is passed through when the backend sends one
commonPitfalls_PassThrough(backendResource) ==
  IF Truthy(OptGet(Get(backendResource, "enhanced_content"), "common_pitfalls"))
  THEN OptGet(Get(backendResource, "enhanced_content"), "common_pitfalls")
  ELSE Arr(<<Obj(
    [pitfall |-> IF Truthy(Get(backendResource, "error"))
                 THEN Str("Resource processing error")
                 ELSE Str("No specific pitfalls identified"),
     solution |-> IF Truthy(Get(backendResource, "error"))
                  THEN Str("Visit the source link directly")
                  ELSE Str("Follow best practices from the resource")])>>)

\* the common_pitfalls literal: one entry, chosen by backendResource.error
commonPitfalls(backendResource) ==
  Arr(<<Obj(
    [pitfall |-> IF Truthy(Get(backendResource, "error"))
                 THEN Str("Resource processing error")
                 ELSE Str("No specific pitfalls identified"),
     solution |-> IF Truthy(Get(backendResource, "error"))
                  THEN Str("Visit the source link directly")
                  ELSE Str("Follow best practices from the resource")])>>)

\* variant: the questions of createFallbackResource are used as the default
defaultSampleQuestions_OfFallback ==
  Arr(<<Str("What is this resource about?"),
        Str("How can I access this content?"),
        Str("Is there an alternative resource?")>>)

\* the array literal sample_questions defaults to
defaultSampleQuestions ==
  Arr(<<Str("What is this resource about?"),
        Str("How can I apply this to my project?"),
        Str("Are there any prerequisites?")>>)

\* variant: mapped records are numbered like fallback records
resourceId_AsFallback(now, rnd) == [prefix |-> "fallback", now |-> now, random |-> rnd]

\* `resource-${Date.now()}-${Math.random()}`: the literal prefix and the two
\* values that follow it
resourceId(now, rnd) == [prefix |-> "resource", now |-> now, random |-> rnd]

mapBackendResourceToFrontendType(backendResource, now, rnd) ==
  IF Nullish(backendResource)
  THEN Thrown("Cannot read properties of " \o backendResource.t \o " (reading 'url')")
  ELSE
  LET b(f) == Get(backendResource, f)
      ec(f) == OptGet(Get(backendResource, "enhanced_content"), f)
      stamp == IF Truthy(b("processed_at"))
               THEN FloorTimes1000(b("processed_at"))
               ELSE Num(now)
      concepts == MapKeyConcepts(ec("key_concepts"))
  IN
  IF concepts.threw THEN concepts
  ELSE Normal(
  [ id |-> resourceId(now, rnd),
    original_data |->
      [ url |-> Or(b("url"), Str("")),
        title |-> Or(b("title"), Str("Unknown Resource")),
        description |-> Or(Or(b("summary"), ec("summary")), Str("")),
        content |-> Or(b("content"), Str("")),
        sections |-> Arr(<<>>),
        word_count |-> Num(0),
        scraped_at |-> stamp ],
    enhanced_resource |->
      [ title |-> Or(Or(ec("enhanced_title"), b("title")), Str("Unknown Resource")),
        overview |-> Or(Or(ec("summary"), b("summary")), Str("No summary available")),
        learning_objectives |-> Or(ec("learning_objectives"),
                                   Arr(<<Str("Visit the resource directly to understand the content")>>)),
        key_concepts |-> concepts.value,
        practical_applications |-> Or(ec("practical_applications"),
                                      Arr(<<Str("Visit the resource for practical information")>>)),
        common_pitfalls |-> commonPitfalls(backendResource),
        next_steps |-> Or(ec("key_takeaways"),
                          Arr(<<Str("Access the resource directly via the source link")>>)),
        difficulty_level |-> Or(ec("difficulty_assessment"), Str("Beginner")),
        estimated_reading_time |-> Or(ec("estimated_read_time"), Str("Unknown")),
        original_url |-> Or(b("url"), Str("")),
        source_title |-> Or(b("title"), Str("External Resource")),
        word_count |-> Num(0) ],
    mentor_context |->
      [ resource_summary |-> Or(Or(ec("summary"), b("summary")), Str("External resource")),
        key_topics |-> Or(ec("key_concepts"), Arr(<<Str("External Resource")>>)),
        sample_questions |-> Or(ec("follow_up_questions"), defaultSampleQuestions),
        key_concepts |-> Or(ec("key_concepts"), Arr(<<Str("External Resource Access")>>)),
        mentor_guidance |-> Or(ec("ai_mentor_note"),
                               Str("This resource provides valuable information for your project.")),
        resource_title |-> Or(Or(ec("enhanced_title"), b("title")), Str("External Resource")),
        resource_url |-> Or(b("url"), Str("")) ],
    processed_at |-> stamp ])

---------------------------------------------------------------------------
(* What the backend may answer.                                            *)

\* a fully populated backend record, with an id of the backend's own
RecFull ==
  Obj([id |-> Str("fallback-7"),
       url |-> Str("https://a.com/x"), title |-> Str("A"), summary |-> Str("S"),
       content |-> Str("text"), processed_at |-> Num(5),
       enhanced_content |-> Obj(
         [enhanced_title |-> Str("A+"), summary |-> Str("S+"),
          learning_objectives |-> Arr(<<Str("L1")>>),
          key_concepts |-> Arr(<<Str("k1"), Obj([concept |-> Str("c2")])>>),
          practical_applications |-> Arr(<<Str("P1")>>),
          key_takeaways |-> Arr(<<Str("T1")>>),
          difficulty_assessment |-> Str("Advanced"),
          estimated_read_time |-> Str("5 min"),
          follow_up_questions |-> Arr(<<Str("Q1")>>),
          ai_mentor_note |-> Str("note")])])

\* an enhancement block whose lists are present but empty
RecEmptyLists ==
  Obj([url |-> Str("https://b.com"),
       enhanced_content |-> Obj(
         [learning_objectives |-> Arr(<<>>), key_concepts |-> Arr(<<>>),
          practical_applications |-> Arr(<<>>), key_takeaways |-> Arr(<<>>)])])

\* key_concepts is a single string instead of a list
RecBadConcepts ==
  Obj([url |-> Str("https://a.com/x"), title |-> Str("A"),
       enhanced_content |-> Obj([key_concepts |-> Str("closures")])])

\* the records and non-records an enhanced_resources list is made of
BackendElements ==
  {RecFull, RecEmptyLists, RecBadConcepts, Null, Num(42)}

RECURSIVE SeqsUpTo(_, _)
\* all sequences over S of length at most n
SeqsUpTo(S, n) ==
  IF n = 0 THEN {<<>>}
  ELSE LET shorter == SeqsUpTo(S, n - 1) IN
       shorter \cup {Append(s, x) : s \in {t \in shorter : Len(t) = n - 1}, x \in S}

\* payloads with an enhanced_resources array, with and without a success flag
WellFormedPayloads ==
  {Obj([enhanced_resources |-> Arr(l)]) : l \in SeqsUpTo(BackendElements, MaxBackend)}
  \cup {Obj([success |-> Bool(f), enhanced_resources |-> Arr(l)]) :
          f \in BOOLEAN, l \in SeqsUpTo(BackendElements, MaxBackend)}

\* parsed values that are not such a payload
MalformedPayloads ==
  {Null, Num(0), Str("ok"), Arr(<<RecFull>>),
   Obj([success |-> Bool(TRUE)]),
   Obj([success |-> Bool(TRUE), enhanced_resources |-> Str("none")])}

\* a response body: text that JSON.parse rejects, or text that parses to data
Bodies ==
  {[parses |-> FALSE, data |-> Undef]}
  \cup {[parses |-> TRUE, data |-> d] : d \in WellFormedPayloads \cup MalformedPayloads}

\* HTTP status codes the backend answers with
Statuses == {200, 204, 500}

\* response.ok
Ok(status) == 200 <= status /\ status <= 299

\* values a rejected fetch rejects with
FetchErrors ==
  {Obj([message |-> Str("Failed to fetch")]), Obj([message |-> Str("")]), Undef}

\* what callers pass as projectContext (the generated project) and projectId
ProjectContexts == {Obj([title |-> Str("Build a blog")])}

ProjectIds == {Undef, Str("p1")}

---------------------------------------------------------------------------
(* State of one invocation.                                                *)

NoResponse == [kind |-> "none"]

NoResult == [kind |-> "none"]

API_BASE_URL == "/api"

\* JSON.stringify({urls, projectContext, projectId}): a key whose value is
\* undefined is left out of the text
RequestBody(us, ctx, pid) ==
  IF pid.t = "undefined"
  THEN [urls |-> us, projectContext |-> ctx]
  ELSE [urls |-> us, projectContext |-> ctx, projectId |-> pid]

\* the fetch both versions issue
FetchRequest(us, ctx, pid) ==
  [ method |-> "POST",
    url |-> API_BASE_URL \o "/process-resources",
    body |-> RequestBody(us, ctx, pid) ]

\* the helper functions are studied on their own in separate specifications:
\* helper names the function under study, args its arguments, ret what the
\* one call of the mapper returned; calls holds the repeated calls of
\* createFallbackResource, or the frames of the overlapping invocations
NoArgs == [kind |-> "none"]

NotCalled == <<>>

\* state holds the React state of the hook or component under study, each
\* useState cell under its name
NoState == [kind |-> "none"]

helperVars == <<helper, args, ret, calls, state>>

Init ==
  /\ pc = "idle"
  /\ service = "none"
  /\ urls = <<>>
  /\ projectContext = Undef
  /\ projectId = Undef
  /\ requests = <<>>
  /\ response = NoResponse
  /\ bodyRead = FALSE
  /\ result = NoResult
  /\ helper = "none"
  /\ args = NoArgs
  /\ ret = NotCalled
  /\ calls = <<>>
  /\ state = NoState

\* the caller enters processResources; the function runs up to its first
\* await, that is, it issues the fetch
Call(svc) ==
  /\ pc = "idle"
  /\ \E us \in SeqsUpTo(URLS, MaxUrls), ctx \in ProjectContexts, pid \in ProjectIds :
       /\ urls' = us
       /\ projectContext' = ctx
       /\ projectId' = pid
       /\ requests' = Append(requests, FetchRequest(us, ctx, pid))
  /\ service' = svc
  /\ pc' = "fetch"
  /\ UNCHANGED <<response, bodyRead, result>>
  /\ UNCHANGED helperVars

\* the caller has taken the result; the invocation is over
Return ==
  /\ pc = "done"
  /\ pc' = "idle"
  /\ service' = "none"
  /\ urls' = <<>>
  /\ projectContext' = Undef
  /\ projectId' = Undef
  /\ requests' = <<>>
  /\ response' = NoResponse
  /\ bodyRead' = FALSE
  /\ result' = NoResult
  /\ UNCHANGED helperVars

---------------------------------------------------------------------------
(* processResources, mapper-based version (src/unnamed/part_002).          *)

\* variant: the batch is built from all but the first URL
FallbackBatch_SkipsFirst(us, cause, now) ==
  LET rest == IF us = <<>> THEN <<>> ELSE Tail(us) IN
  [ kind |-> "object",
    success |-> FALSE,
    enhanced_resources |->
      [i \in 1..Len(rest) |-> createFallbackResource(Str(rest[i]), cause, now, Random(i))],
    count |-> Len(us) ]

\* urls.map((url) => createFallbackResource(url, cause)) wrapped in the
\* result object of a failed batch
FallbackBatch(us, cause, now) ==
  [ kind |-> "object",
    success |-> FALSE,
    enhanced_resources |->
      [i \in 1..Len(us) |-> createFallbackResource(Str(us[i]), cause, now, Random(i))],
    count |-> Len(us) ]

\* variant: the message is used without a default
NetworkCause_NoDefault(error) == OptGet(error, "message")

\* error?.message || 'Network error'
NetworkCause(error) == Or(OptGet(error, "message"), Str("Network error"))

\* `Backend error: ${response.status}`
BackendErrorCause(status) == Str("Backend error: " \o ToString(status))

\* variant: a payload without a success flag is rejected as well
UnexpectedStructure_NeedsSuccess(data) ==
  \/ ~Truthy(data)
  \/ ~IsArray(Get(data, "enhanced_resources"))
  \/ Get(data, "success").t = "undefined"

\* !data || !Array.isArray(data.enhanced_resources)
UnexpectedStructure(data) ==
  \/ ~Truthy(data)
  \/ ~IsArray(Get(data, "enhanced_resources"))

\* the callback of data.enhanced_resources.map: the mapper under try, and in
\* the catch handler a fallback built from backendResource.url, a read that
\* itself throws when the element is null
MapElement(backendResource, now, rnd) ==
  LET mapped == mapBackendResourceToFrontendType(backendResource, now, rnd) IN
  IF ~mapped.threw THEN mapped
  ELSE IF Nullish(backendResource)
  THEN Thrown("Cannot read properties of " \o backendResource.t \o " (reading 'url')")
  ELSE Normal(createFallbackResource(Or(Get(backendResource, "url"), Str("unknown")),
                                     Str("Mapping error: " \o mapped.message), now, rnd))

\* data.enhanced_resources.map(...): the first callback that throws ends it
MapResources(list, now) ==
  IF \E i \in 1..Len(list) : MapElement(list[i], now, Random(i)).threw
  THEN LET first == CHOOSE i \in 1..Len(list) :
                      /\ MapElement(list[i], now, Random(i)).threw
                      /\ \A j \in 1..(i-1) : ~MapElement(list[j], now, Random(j)).threw
       IN MapElement(list[first], now, Random(first))
  ELSE Normal([i \in 1..Len(list) |-> MapElement(list[i], now, Random(i)).value])

\* variant: an exception leaving the map call is not caught, the promise rejects
ParsedOutcome_Uncaught(us, data, now) ==
  IF UnexpectedStructure(data)
  THEN FallbackBatch(us, Str("Unexpected response structure"), now)
  ELSE LET mappedResources == MapResources(Get(data, "enhanced_resources").v, now) IN
       IF mappedResources.threw
       THEN [kind |-> "rejected", error |-> mappedResources.message]
       ELSE [ kind |-> "object",
              success |-> Get(data, "success") # Bool(FALSE),
              enhanced_resources |-> mappedResources.value,
              count |-> Len(mappedResources.value) ]

\* variant: the mapped list is cut down to the number of input URLs
ParsedOutcome_TruncatesToUrls(us, data, now) ==
  IF UnexpectedStructure(data)
  THEN FallbackBatch(us, Str("Unexpected response structure"), now)
  ELSE LET mappedResources == MapResources(Get(data, "enhanced_resources").v, now) IN
       IF mappedResources.threw
       THEN FallbackBatch(us, Str("JSON parse error"), now)
       ELSE LET kept == IF Len(mappedResources.value) > Len(us)
                        THEN SubSeq(mappedResources.value, 1, Len(us))
                        ELSE mappedResources.value
            IN [ kind |-> "object",
                 success |-> Get(data, "success") # Bool(FALSE),
                 enhanced_resources |-> kept,
                 count |-> Len(kept) ]

\* the body of the inner try once response.json() has resolved to data
ParsedOutcome(us, data, now) ==
  IF UnexpectedStructure(data)
  THEN FallbackBatch(us, Str("Unexpected response structure"), now)
  ELSE LET mappedResources == MapResources(Get(data, "enhanced_resources").v, now) IN
       IF mappedResources.threw
       THEN FallbackBatch(us, Str("JSON parse error"), now)
       ELSE [ kind |-> "object",
              success |-> Get(data, "success") # Bool(FALSE),
              enhanced_resources |-> mappedResources.value,
              count |-> Len(mappedResources.value) ]

processResources_Call == Call("mapper")

\* variant: a rejected fetch is tried again
processResources_FetchRejected_Retries ==
  /\ pc = "fetch" /\ service = "mapper"
  /\ \E error \in FetchErrors :
       response' = [kind |-> "rejected", error |-> error]
  /\ requests' = Append(requests, FetchRequest(urls, projectContext, projectId))
  /\ UNCHANGED <<pc, service, urls, projectContext, projectId, bodyRead, result>>
  /\ UNCHANGED helperVars

\* fetch rejects: the outer catch
processResources_FetchRejected ==
  /\ pc = "fetch" /\ service = "mapper"
  /\ \E error \in FetchErrors, now \in Times :
       /\ response' = [kind |-> "rejected", error |-> error]
       /\ result' = FallbackBatch(urls, NetworkCause(error), now)
  /\ pc' = "done"
  /\ UNCHANGED <<service, urls, projectContext, projectId, requests, bodyRead>>
  /\ UNCHANGED helperVars

\* variant: the body is parsed before the status is looked at
processResources_NotOk_ParsesFirst ==
  /\ pc = "fetch" /\ service = "mapper"
  /\ \E status \in Statuses, body \in Bodies, now \in Times :
       /\ ~Ok(status)
       /\ response' = [kind |-> "resolved", status |-> status, body |-> body]
       /\ result' = IF body.parses /\ ~UnexpectedStructure(body.data)
                    THEN ParsedOutcome(urls, body.data, now)
                    ELSE FallbackBatch(urls, BackendErrorCause(status), now)
  /\ bodyRead' = TRUE
  /\ pc' = "done"
  /\ UNCHANGED <<service, urls, projectContext, projectId, requests>>
  /\ UNCHANGED helperVars

\* fetch resolves with a status outside 200..299
processResources_NotOk ==
  /\ pc = "fetch" /\ service = "mapper"
  /\ \E status \in Statuses, body \in Bodies, now \in Times :
       /\ ~Ok(status)
       /\ response' = [kind |-> "resolved", status |-> status, body |-> body]
       /\ result' = FallbackBatch(urls, BackendErrorCause(status), now)
  /\ pc' = "done"
  /\ UNCHANGED <<service, urls, projectContext, projectId, requests, bodyRead>>
  /\ UNCHANGED helperVars

\* fetch resolves with a 2xx status: response.json() is called and awaited
processResources_Ok ==
  /\ pc = "fetch" /\ service = "mapper"
  /\ \E status \in Statuses, body \in Bodies :
       /\ Ok(status)
       /\ response' = [kind |-> "resolved", status |-> status, body |-> body]
  /\ bodyRead' = TRUE
  /\ pc' = "json"
  /\ UNCHANGED <<service, urls, projectContext, projectId, requests, result>>
  /\ UNCHANGED helperVars

\* response.json() rejects: catch (parseError)
processResources_JsonRejected ==
  /\ pc = "json" /\ service = "mapper"
  /\ ~response.body.parses
  /\ \E now \in Times :
       result' = FallbackBatch(urls, Str("JSON parse error"), now)
  /\ pc' = "done"
  /\ UNCHANGED <<service, urls, projectContext, projectId, requests, response, bodyRead>>
  /\ UNCHANGED helperVars

\* response.json() resolves: validation and per-record mapping
processResources_JsonResolved ==
  /\ pc = "json" /\ service = "mapper"
  /\ response.body.parses
  /\ \E now \in Times :
       result' = ParsedOutcome(urls, response.body.data, now)
  /\ pc' = "done"
  /\ UNCHANGED <<service, urls, projectContext, projectId, requests, response, bodyRead>>
  /\ UNCHANGED helperVars

---------------------------------------------------------------------------
(* processResources, inline-fallback version                               *)
(* (src/src/services/resourceService.ts, lines 20-270).                    *)

\* urls.map((url) => ({ ... })) of one failure branch
InlineFallbackBatch(us, content, overview, pitfall, summary, guidance, now) ==
  [ kind |-> "object",
    success |-> FALSE,
    enhanced_resources |->
      [i \in 1..Len(us) |->
         inlineFallbackResource(Str(us[i]), content, overview, pitfall, summary,
                                guidance, now, Random(i))],
    count |-> Len(us) ]

inlineProcessResources_Call == Call("inline")

\* fetch rejects: the outer catch
inlineProcessResources_FetchRejected ==
  /\ pc = "fetch" /\ service = "inline"
  /\ \E error \in FetchErrors, now \in Times :
       /\ response' = [kind |-> "rejected", error |-> error]
       /\ result' = InlineFallbackBatch(urls,
            Or(OptGet(error, "message"), Str("Unknown error")),
            "There was a network error while processing this resource.",
            "Network connectivity issue",
            "External resource with network issues",
            "There was a network issue processing this resource. Please visit the source link directly.",
            now)
  /\ pc' = "done"
  /\ UNCHANGED <<service, urls, projectContext, projectId, requests, bodyRead>>
  /\ UNCHANGED helperVars

\* fetch resolves with a status outside 200..299
inlineProcessResources_NotOk ==
  /\ pc = "fetch" /\ service = "inline"
  /\ \E status \in Statuses, body \in Bodies, now \in Times :
       /\ ~Ok(status)
       /\ response' = [kind |-> "resolved", status |-> status, body |-> body]
       /\ result' = InlineFallbackBatch(urls,
            Str("This resource could not be processed automatically."),
            "This resource could not be processed automatically. Please visit the link directly for the content.",
            "Resource not accessible",
            "External resource that requires direct access",
            "This resource could not be processed automatically. Please visit the source link directly.",
            now)
  /\ pc' = "done"
  /\ UNCHANGED <<service, urls, projectContext, projectId, requests, bodyRead>>
  /\ UNCHANGED helperVars

\* fetch resolves with a 2xx status: response.json() is called and awaited
inlineProcessResources_Ok ==
  /\ pc = "fetch" /\ service = "inline"
  /\ \E status \in Statuses, body \in Bodies :
       /\ Ok(status)
       /\ response' = [kind |-> "resolved", status |-> status, body |-> body]
  /\ bodyRead' = TRUE
  /\ pc' = "json"
  /\ UNCHANGED <<service, urls, projectContext, projectId, requests, result>>
  /\ UNCHANGED helperVars

\* response.json() rejects: catch (parseError)
inlineProcessResources_JsonRejected ==
  /\ pc = "json" /\ service = "inline"
  /\ ~response.body.parses
  /\ \E now \in Times :
       result' = InlineFallbackBatch(urls,
            Str("Invalid JSON response from backend"),
            "The backend returned an invalid response.",
            "Invalid backend response",
            "External resource with processing issues",
            "There was an issue processing this resource. Please visit the source link directly.",
            now)
  /\ pc' = "done"
  /\ UNCHANGED <<service, urls, projectContext, projectId, requests, response, bodyRead>>
  /\ UNCHANGED helperVars

\* response.json() resolves: the payload is checked and returned as it is
inlineProcessResources_JsonResolved ==
  /\ pc = "json" /\ service = "inline"
  /\ response.body.parses
  /\ \E now \in Times :
       result' = IF UnexpectedStructure(response.body.data)
                 THEN InlineFallbackBatch(urls,
                        Str("Malformed response from backend"),
                        "The backend returned an unexpected response format.",
                        "Unexpected response format",
                        "External resource with processing issues",
                        "There was an issue processing this resource. Please visit the source link directly.",
                        now)
                 ELSE [kind |-> "data", data |-> response.body.data]
  /\ pc' = "done"
  /\ UNCHANGED <<service, urls, projectContext, projectId, requests, response, bodyRead>>
  /\ UNCHANGED helperVars

Next ==
  \/ processResources_Call
  \/ processResources_FetchRejected
  \/ processResources_NotOk
  \/ processResources_Ok
  \/ processResources_JsonRejected
  \/ processResources_JsonResolved
  \/ inlineProcessResources_Call
  \/ inlineProcessResources_FetchRejected
  \/ inlineProcessResources_NotOk
  \/ inlineProcessResources_Ok
  \/ inlineProcessResources_JsonRejected
  \/ inlineProcessResources_JsonResolved
  \/ Return

Spec == Init /\ [][Next]_vars

---------------------------------------------------------------------------
(* mapBackendResourceToFrontendType on its own: one call on one backend    *)
(* record.                                                                 *)

mainVars == <<pc, service, urls, projectContext, projectId,
              requests, response, bodyRead, result>>

\* no invocation of processResources is under way
MainIdle ==
  /\ pc = "idle"
  /\ service = "none"
  /\ urls = <<>>
  /\ projectContext = Undef
  /\ projectId = Undef
  /\ requests = <<>>
  /\ response = NoResponse
  /\ bodyRead = FALSE
  /\ result = NoResult

\* the records of R, each with and without a field name holding a value of V
Optional(R, name, V) == R \cup {r @@ (name :> v) : r \in R, v \in V}

\* enhancement blocks: every subset of the defaulted fields, the difficulty
\* inside and outside the enum, key_concepts absent, empty and mixed
EnhancedContents ==
  Optional(Optional(Optional(Optional(Optional(Optional(Optional({<<>>},
    "enhanced_title", {Str("A+")}),
    "summary", {Str("S+")}),
    "learning_objectives", {Arr(<<Str("L1"), Str("L2")>>)}),
    "estimated_read_time", {Str("5 min")}),
    "difficulty_assessment", {Str("Advanced"), Str("Expert")}),
    "follow_up_questions", {Arr(<<Str("Q1")>>)}),
    "key_concepts",
      {Arr(<<>>),
       Arr(<<Str("k1"), Obj([concept |-> Str("c2")]),
             Obj([explanation |-> Str("e3"), example |-> Str("x3")]), Str(""), Num(7)>>)})

\* backend records: every subset of the top-level fields, an error field
\* that is absent, set and empty, a timestamp that is absent, 0 and 5
\* seconds, with and without an enhancement block
RecordInputs ==
  LET top == Optional(Optional(Optional(Optional({[url |-> Str("https://a.com/x")]},
               "title", {Str("A")}),
               "summary", {Str("S")}),
               "error", {Str("scrape failed"), Str("")}),
               "processed_at", {Num(0), Num(5)})
  IN {Obj(r) : r \in Optional(top, "enhanced_content", {Obj(e) : e \in EnhancedContents})}

\* a record whose backend data carries pitfalls of its own
RecOwnPitfalls ==
  Obj([url |-> Str("https://a.com/x"),
       common_pitfalls |-> Arr(<<Str("P0")>>),
       enhanced_content |->
         Obj([common_pitfalls |->
                Arr(<<Obj([pitfall |-> Str("P1"), solution |-> Str("S1")]),
                      Obj([pitfall |-> Str("P2"), solution |-> Str("S2")])>>)])])

\* what the mapper is called with: the records above and the elements of the
\* backend lists of the main specification
MapperInputs == RecordInputs \cup BackendElements \cup {RecOwnPitfalls}

InitMapper ==
  /\ MainIdle
  /\ state = NoState
  /\ helper = "mapBackendResourceToFrontendType"
  /\ args \in {[backendResource |-> b] : b \in MapperInputs}
  /\ ret = NotCalled
  /\ calls = <<>>

\* the call: it returns a record or throws
mapBackendResourceToFrontendType_Apply ==
  /\ helper = "mapBackendResourceToFrontendType"
  /\ ret = NotCalled
  /\ \E now \in Times :
       ret' = <<[now |-> now,
                 outcome |-> mapBackendResourceToFrontendType(args.backendResource, now, Random(1))]>>
  /\ UNCHANGED <<mainVars, state, helper, args, calls>>

NextMapper == mapBackendResourceToFrontendType_Apply

SpecMapper == InitMapper /\ [][NextMapper]_vars

---------------------------------------------------------------------------
(* createFallbackResource on its own: repeated calls with one url.         *)

\* url strings: parseable with path, credentials, port, query and fragment,
\* without authority, and unparseable in several ways
FallbackUrls ==
  {"https://example.com/x", "https://a.com/x", "https://b.com",
   "http://u:p@c.org:8080/p?q#f", "https:d.io", "mailto:a@b.com",
   "not a url", "", "a.com/x", "//a.com", "https://", "https://a.com:x"}

\* causes a caller passes
FallbackErrors == {Str("Network error"), Str("Backend error: 500"), Str("")}

InitFallback ==
  /\ MainIdle
  /\ state = NoState
  /\ helper = "createFallbackResource"
  /\ args \in {[url |-> Str(u)] : u \in FallbackUrls}
  /\ ret = NotCalled
  /\ calls = <<>>

\* one more call with the same url, any cause, at any time
createFallbackResource_Apply ==
  /\ helper = "createFallbackResource"
  /\ Len(calls) < MaxCalls
  /\ \E error \in FallbackErrors, now \in Times :
       calls' = Append(calls,
                  [error |-> error,
                   value |-> createFallbackResource(args.url, error, now, Random(Len(calls) + 1))])
  /\ UNCHANGED <<mainVars, state, helper, args, ret>>

NextFallback == createFallbackResource_Apply

SpecFallback == InitFallback /\ [][NextFallback]_vars

---------------------------------------------------------------------------
(* Two invocations of processResources (mapper-based version) in flight at *)
(* the same time. Each invocation is an activation of the async function:  *)
(* its parameters and locals (urls, projectContext, projectId, response,   *)
(* data) live in its own frame; the function touches no module-level or    *)
(* static variable. calls[i] is the frame of invocation i.                 *)

Invocations == {1, 2}

\* another invocation than i
Other(i) == CHOOSE j \in Invocations : j # i

IdleFrame ==
  [ pc |-> "idle", urls |-> <<>>, request |-> NoResponse, response |-> NoResponse,
    result |-> NoResult, overlapped |-> FALSE ]

\* what the two callers pass, and what the backend answers
ConcurrentUrls == {<<"https://a.com/x">>, <<"not a url">>}

ConcurrentProjectIds == {Undef}

ConcurrentBodies ==
  { [parses |-> FALSE],
    [parses |-> TRUE, data |-> Null],
    [parses |-> TRUE, data |-> Obj([enhanced_resources |-> Arr(<<RecFull>>)])],
    [parses |-> TRUE, data |-> Obj([enhanced_resources |-> Arr(<<Null>>)])] }

ConcurrentStatuses == {200, 500}

\* variant: urls is kept in a static field that the latest caller overwrites
FrameUrls_Static(i) ==
  IF calls[Other(i)].pc # "idle" THEN calls[Other(i)].urls ELSE calls[i].urls

\* the urls parameter as invocation i reads it
FrameUrls(i) == calls[i].urls

InFlight(i) == calls[i].pc \in {"fetch", "json"}

InitConcurrent ==
  /\ MainIdle
  /\ state = NoState
  /\ helper = "processResources"
  /\ args = NoArgs
  /\ ret = NotCalled
  /\ calls = [i \in Invocations |-> IdleFrame]

\* a caller enters processResources: the fetch is issued
Invocation_Call ==
  /\ \E i \in Invocations :
       /\ calls[i].pc = "idle"
       /\ \E us \in ConcurrentUrls, ctx \in ProjectContexts, pid \in ConcurrentProjectIds :
            calls' = [calls EXCEPT ![i] =
                        [@ EXCEPT !.pc = "fetch", !.urls = us,
                                  !.request = FetchRequest(us, ctx, pid),
                                  !.overlapped = InFlight(Other(i))]]
  /\ UNCHANGED <<mainVars, state, helper, args, ret>>

\* the fetch of one invocation rejects
Invocation_FetchRejected ==
  /\ \E i \in Invocations :
       /\ calls[i].pc = "fetch"
       /\ \E error \in FetchErrors, now \in Times :
            calls' = [calls EXCEPT ![i] =
                        [@ EXCEPT !.pc = "done",
                                  !.response = [kind |-> "rejected", error |-> error],
                                  !.result = FallbackBatch(FrameUrls(i), NetworkCause(error), now)]]
  /\ UNCHANGED <<mainVars, state, helper, args, ret>>

\* the fetch of one invocation resolves with a status outside 200..299
Invocation_NotOk ==
  /\ \E i \in Invocations :
       /\ calls[i].pc = "fetch"
       /\ \E status \in ConcurrentStatuses, body \in ConcurrentBodies, now \in Times :
            /\ ~Ok(status)
            /\ calls' = [calls EXCEPT ![i] =
                           [@ EXCEPT !.pc = "done",
                                     !.response = [kind |-> "resolved", status |-> status, body |-> body],
                                     !.result = FallbackBatch(FrameUrls(i), BackendErrorCause(status), now)]]
  /\ UNCHANGED <<mainVars, state, helper, args, ret>>

\* the fetch of one invocation resolves with a 2xx status
Invocation_Ok ==
  /\ \E i \in Invocations :
       /\ calls[i].pc = "fetch"
       /\ \E status \in ConcurrentStatuses, body \in ConcurrentBodies :
            /\ Ok(status)
            /\ calls' = [calls EXCEPT ![i] =
                           [@ EXCEPT !.pc = "json",
                                     !.response = [kind |-> "resolved", status |-> status, body |-> body]]]
  /\ UNCHANGED <<mainVars, state, helper, args, ret>>

\* response.json() of one invocation rejects
Invocation_JsonRejected ==
  /\ \E i \in Invocations :
       /\ calls[i].pc = "json"
       /\ ~calls[i].response.body.parses
       /\ \E now \in Times :
            calls' = [calls EXCEPT ![i] =
                        [@ EXCEPT !.pc = "done",
                                  !.result = FallbackBatch(FrameUrls(i), Str("JSON parse error"), now)]]
  /\ UNCHANGED <<mainVars, state, helper, args, ret>>

\* response.json() of one invocation resolves
Invocation_JsonResolved ==
  /\ \E i \in Invocations :
       /\ calls[i].pc = "json"
       /\ calls[i].response.body.parses
       /\ \E now \in Times :
            calls' = [calls EXCEPT ![i] =
                        [@ EXCEPT !.pc = "done",
                                  !.result = ParsedOutcome(FrameUrls(i), calls[i].response.body.data, now)]]
  /\ UNCHANGED <<mainVars, state, helper, args, ret>>

NextConcurrent ==
  \/ Invocation_Call
  \/ Invocation_FetchRejected
  \/ Invocation_NotOk
  \/ Invocation_Ok
  \/ Invocation_JsonRejected
  \/ Invocation_JsonResolved

SpecConcurrent == InitConcurrent /\ [][NextConcurrent]_vars

---------------------------------------------------------------------------
(* ResourceService.getEnhancedResources (src/unnamed/part_002): one call.  *)
(* calls[1] is the frame of the call, ret the settlement of its promise.   *)

\* a stored record that is already in the frontend format
RecStored ==
  Obj([id |-> Str("resource-1-0.5"),
       enhanced_resource |-> Obj([title |-> Str("Stored")]),
       mentor_context |-> Obj([resource_title |-> Str("Stored")])])

\* a stored record with one of the two blocks only
RecHalfStored ==
  Obj([url |-> Str("https://b.com"), title |-> Str("B"),
       enhanced_resource |-> Obj([title |-> Str("Half")])])

StoredElements == {RecStored, RecHalfStored, RecFull, RecBadConcepts, Null, Num(42)}

\* response bodies: not JSON, JSON that is no array, and arrays
StoredBodies ==
  {[parses |-> FALSE, data |-> Undef]}
  \cup {[parses |-> TRUE, data |-> d] :
          d \in {Null, Str("none"), Obj([enhanced_resources |-> Arr(<<RecStored>>)])}}
  \cup {[parses |-> TRUE, data |-> Arr(l)] : l \in SeqsUpTo(StoredElements, MaxStored)}

StoredStatuses == {200, 500}

StoredProjectIds == {"p1"}

\* the settlement of the promise an async function returns
Resolved(val) == [kind |-> "resolved", value |-> val]

Rejected(msg) == [kind |-> "rejected", error |-> msg]

\* the callback of data.map: under try, the element is returned as it is
\* when both blocks are truthy and mapped otherwise; the catch handler builds
\* a fallback from backendResource.url. Reading a property of a null element
\* throws in the try block and again in the handler
StoredElement(backendResource, now, rnd) ==
  IF Nullish(backendResource)
  THEN Thrown("Cannot read properties of " \o backendResource.t \o " (reading 'url')")
  ELSE IF Truthy(Get(backendResource, "enhanced_resource"))
          /\ Truthy(Get(backendResource, "mentor_context"))
  THEN Normal(backendResource)
  ELSE LET mapped == mapBackendResourceToFrontendType(backendResource, now, rnd) IN
       IF ~mapped.threw THEN mapped
       ELSE Normal(createFallbackResource(
                     Or(Get(backendResource, "url"), Str("unknown")),
                     Str("Stored resource mapping error: " \o mapped.message), now, rnd))

\* data.map(...): the first callback that throws ends it
MapStored(list, now) ==
  IF \E i \in 1..Len(list) : StoredElement(list[i], now, Random(i)).threw
  THEN LET first == CHOOSE i \in 1..Len(list) :
                      /\ StoredElement(list[i], now, Random(i)).threw
                      /\ \A j \in 1..(i-1) : ~StoredElement(list[j], now, Random(j)).threw
       IN StoredElement(list[first], now, Random(first))
  ELSE Normal([i \in 1..Len(list) |-> StoredElement(list[i], now, Random(i)).value])

\* variant: an exception leaving data.map is not caught, the promise rejects
StoredOutcome_Uncaught(data, now) ==
  IF ~IsArray(data) THEN Resolved(<<>>)
  ELSE IF MapStored(data.v, now).threw
  THEN Rejected(MapStored(data.v, now).message)
  ELSE Resolved(MapStored(data.v, now).value)

\* what follows `const data = await response.json()`: the array test, the
\* map, and the outer catch for whatever the map throws
StoredOutcome(data, now) ==
  IF ~IsArray(data) THEN Resolved(<<>>)
  ELSE IF MapStored(data.v, now).threw
  THEN Resolved(<<>>)
  ELSE Resolved(MapStored(data.v, now).value)

InitGet ==
  /\ MainIdle
  /\ state = NoState
  /\ helper = "getEnhancedResources"
  /\ args = NoArgs
  /\ ret = NotCalled
  /\ calls = <<>>

\* the caller enters getEnhancedResources: the fetch is issued
getEnhancedResources_Call ==
  /\ helper = "getEnhancedResources"
  /\ calls = <<>>
  /\ \E pid \in StoredProjectIds :
       /\ args' = [projectId |-> pid]
       /\ calls' = <<[ pc |-> "fetch",
                       request |-> [method |-> "GET",
                                    url |-> API_BASE_URL \o "/enhanced-resources/" \o pid],
                       response |-> NoResponse,
                       bodyRead |-> FALSE ]>>
  /\ UNCHANGED <<mainVars, state, helper, ret>>

\* fetch rejects: the outer catch
getEnhancedResources_FetchRejected ==
  /\ helper = "getEnhancedResources"
  /\ calls # <<>> /\ calls[1].pc = "fetch"
  /\ \E error \in FetchErrors :
       calls' = <<[calls[1] EXCEPT !.pc = "done",
                                   !.response = [kind |-> "rejected", error |-> error]]>>
  /\ ret' = <<Resolved(<<>>)>>
  /\ UNCHANGED <<mainVars, state, helper, args>>

\* fetch resolves with a status outside 200..299
getEnhancedResources_NotOk ==
  /\ helper = "getEnhancedResources"
  /\ calls # <<>> /\ calls[1].pc = "fetch"
  /\ \E status \in StoredStatuses, body \in StoredBodies :
       /\ ~Ok(status)
       /\ calls' = <<[calls[1] EXCEPT !.pc = "done",
                        !.response = [kind |-> "resolved", status |-> status, body |-> body]]>>
  /\ ret' = <<Resolved(<<>>)>>
  /\ UNCHANGED <<mainVars, state, helper, args>>

\* fetch resolves with a 2xx status: response.json() is called and awaited
getEnhancedResources_Ok ==
  /\ helper = "getEnhancedResources"
  /\ calls # <<>> /\ calls[1].pc = "fetch"
  /\ \E status \in StoredStatuses, body \in StoredBodies :
       /\ Ok(status)
       /\ calls' = <<[calls[1] EXCEPT !.pc = "json", !.bodyRead = TRUE,
                        !.response = [kind |-> "resolved", status |-> status, body |-> body]]>>
  /\ UNCHANGED <<mainVars, state, helper, args, ret>>

\* response.json() rejects: the outer catch
getEnhancedResources_JsonRejected ==
  /\ helper = "getEnhancedResources"
  /\ calls # <<>> /\ calls[1].pc = "json"
  /\ ~calls[1].response.body.parses
  /\ calls' = <<[calls[1] EXCEPT !.pc = "done"]>>
  /\ ret' = <<Resolved(<<>>)>>
  /\ UNCHANGED <<mainVars, state, helper, args>>

\* response.json() resolves: the array test and the per-record mapping
getEnhancedResources_JsonResolved ==
  /\ helper = "getEnhancedResources"
  /\ calls # <<>> /\ calls[1].pc = "json"
  /\ calls[1].response.body.parses
  /\ calls' = <<[calls[1] EXCEPT !.pc = "done"]>>
  /\ \E now \in Times :
       ret' = <<StoredOutcome(calls[1].response.body.data, now)>>
  /\ UNCHANGED <<mainVars, state, helper, args>>

NextGet ==
  \/ getEnhancedResources_Call
  \/ getEnhancedResources_FetchRejected
  \/ getEnhancedResources_NotOk
  \/ getEnhancedResources_Ok
  \/ getEnhancedResources_JsonRejected
  \/ getEnhancedResources_JsonResolved

SpecGet == InitGet /\ [][NextGet]_vars

---------------------------------------------------------------------------
(* The useResourceProcessing hook (src/unnamed/part_001, lines 292-315).   *)
(* state holds its three useState cells; calls holds one frame per call of *)
(* its processResources, in the order the calls were started. The service  *)
(* is the environment: it resolves with a result or rejects.               *)

\* what ResourceService.processResources resolves with: a fallback batch, a
\* backend payload handed through, with and without a fallback flag, and the
\* result of the mapper-based version
HookResults ==
  { Obj([resources |-> Arr(<<Str("fallback of u1")>>), fallback |-> Bool(TRUE)]),
    Obj([resources |-> Arr(<<Str("r1")>>)]),
    Obj([resources |-> Arr(<<Str("r2")>>), fallback |-> Bool(FALSE)]),
    Obj([success |-> Bool(TRUE), enhanced_resources |-> Arr(<<>>), count |-> Num(0)]) }

\* what it rejects with
HookRejections == {Obj([message |-> Str("boom")]), Obj([message |-> Str("")]), Undef}

FallbackNotice == Str("Some resources could not be processed automatically.")

\* some call is waiting for the service
HookInFlight == \E i \in 1..Len(calls) : calls[i].pc = "await"

InitHook ==
  /\ MainIdle
  /\ helper = "useResourceProcessing"
  /\ args = NoArgs
  /\ ret = NotCalled
  /\ calls = <<>>
  /\ state = [data |-> Null, loading |-> FALSE, error |-> Null]

\* variant: the error of an earlier call is kept
useResourceProcessing_Call_KeepsError ==
  /\ helper = "useResourceProcessing"
  /\ Len(calls) < MaxHookCalls
  /\ state' = [state EXCEPT !.loading = TRUE]
  /\ calls' = Append(calls, [pc |-> "await", overlapped |-> HookInFlight,
                             settlement |-> NoResponse, returned |-> NoResult])
  /\ UNCHANGED <<mainVars, helper, args, ret>>

\* processResources is called: setLoading(true), setError(null), and the
\* service call is awaited
useResourceProcessing_Call ==
  /\ helper = "useResourceProcessing"
  /\ Len(calls) < MaxHookCalls
  /\ state' = [state EXCEPT !.loading = TRUE, !.error = Null]
  /\ calls' = Append(calls, [pc |-> "await", overlapped |-> HookInFlight,
                             settlement |-> NoResponse, returned |-> NoResult])
  /\ UNCHANGED <<mainVars, helper, args, ret>>

\* the service call of one call resolves: setData(result), setError when
\* result.fallback, return result, and setLoading(false) in finally
useResourceProcessing_Resolved ==
  /\ helper = "useResourceProcessing"
  /\ \E i \in 1..Len(calls), res \in HookResults :
       /\ calls[i].pc = "await"
       /\ state' = [ data |-> res,
                     error |-> IF Truthy(Get(res, "fallback")) THEN FallbackNotice
                               ELSE state.error,
                     loading |-> FALSE ]
       /\ calls' = [calls EXCEPT ![i] =
                      [@ EXCEPT !.pc = "done", !.settlement = Resolved(res),
                                !.returned = Resolved(res)]]
  /\ UNCHANGED <<mainVars, helper, args, ret>>

\* the service call of one call rejects: setError, setData(null), return
\* null, and setLoading(false) in finally
useResourceProcessing_Rejected ==
  /\ helper = "useResourceProcessing"
  /\ \E i \in 1..Len(calls), err \in HookRejections :
       /\ calls[i].pc = "await"
       /\ state' = [ data |-> Null,
                     error |-> Or(OptGet(err, "message"), Str("Unknown error")),
                     loading |-> FALSE ]
       /\ calls' = [calls EXCEPT ![i] =
                      [@ EXCEPT !.pc = "done", !.settlement = Rejected(err),
                                !.returned = Resolved(Null)]]
  /\ UNCHANGED <<mainVars, helper, args, ret>>

NextHook ==
  \/ useResourceProcessing_Call
  \/ useResourceProcessing_Resolved
  \/ useResourceProcessing_Rejected

SpecHook == InitHook /\ [][NextHook]_vars

---------------------------------------------------------------------------
(* ProjectGeneratorForm.generateProject (src/unnamed/part_000, lines       *)
(* 584-660) with handleSubmit and handleSwitchDomain. state holds the      *)
(* useState cells of the form; calls holds the frame of the latest run,    *)
(* with what the run handed to onProjectGenerated and whether it opened    *)
(* the modal; args counts the runs started.                                *)
(* The submit button is disabled while isSubmitting, so runs do not        *)
(* overlap. onProjectGenerated is the parent's callback of type            *)
(* (projectData, experienceLevel) => void; it returns.                     *)

FormDomains == {"coding", "hardware"}

ExperienceLevels == {2}

\* response bodies: text that is not JSON, and JSON values
FormBodies ==
  {[parses |-> FALSE, text |-> "<html>oops", data |-> Undef]}
  \cup {[parses |-> TRUE, text |-> "", data |-> d] :
          d \in { Null,
                  Obj(<<>>),
                  Obj([error |-> Str("concept_domain_mismatch"),
                       suggested_domain |-> Str("hardware")]),
                  Obj([error |-> Str("rate limited")]),
                  Obj([details |-> Str("model overloaded")]),
                  Obj([project |-> Obj([title |-> Str("Build a blog")])]),
                  Obj([project |-> Obj([title |-> Str("")])]),
                  Obj([project |-> Num(1)]),
                  Obj([project |-> Obj([title |-> Str("Build a robot")]),
                       error |-> Str("concept_domain_mismatch")]) }}

FormStatuses == {200, 400, 500}

\* what fetch and response.text() reject with
FormRejections == {[isError |-> TRUE, message |-> "Failed to fetch"], [isError |-> FALSE]}

\* error instanceof Error ? error.message : 'Unknown error occurred'
CaughtMessage(error) ==
  IF error.isError THEN Str(error.message) ELSE Str("Unknown error occurred")

\* variant: a 2xx body is handed to the parent without looking at the project
AfterText_NoValidation(status, body) ==
  IF ~body.parses
  THEN [kind |-> "error", message |-> Str("Invalid response from server: " \o body.text \o "...")]
  ELSE IF Nullish(body.data)
  THEN [kind |-> "error", message |-> Str("Cannot read properties of null")]
  ELSE IF ~Ok(status)
  THEN IF Get(body.data, "error") = Str("concept_domain_mismatch")
       THEN [kind |-> "mismatch"]
       ELSE [kind |-> "error",
             message |-> Or(Or(Get(body.data, "error"), Get(body.data, "details")),
                            Str("Server error: " \o ToString(status)))]
  ELSE [kind |-> "delivered"]

\* the run from JSON.parse(responseText) on: parse, status test, mismatch
\* test, validation of project.title; a thrown Error ends in the catch block
\* with its message. Reading a property of a parsed null throws a TypeError
AfterText(status, body) ==
  IF ~body.parses
  THEN [kind |-> "error", message |-> Str("Invalid response from server: " \o body.text \o "...")]
  ELSE IF Nullish(body.data)
  THEN [kind |-> "error", message |-> Str("Cannot read properties of null")]
  ELSE IF ~Ok(status)
  THEN IF Get(body.data, "error") = Str("concept_domain_mismatch")
       THEN [kind |-> "mismatch"]
       ELSE [kind |-> "error",
             message |-> Or(Or(Get(body.data, "error"), Get(body.data, "details")),
                            Str("Server error: " \o ToString(status)))]
  ELSE IF ~Truthy(Get(body.data, "project"))
          \/ ~Truthy(Get(Get(body.data, "project"), "title"))
  THEN [kind |-> "error", message |-> Str("Invalid project data received from server")]
  ELSE [kind |-> "delivered"]

\* the frame of a run that has just been started with data
NewRun(data) ==
  [ pc |-> "fetch", data |-> data, response |-> NoResponse,
    delivered |-> <<>>, openedModal |-> FALSE ]

InitForm ==
  /\ MainIdle
  /\ helper = "generateProject"
  /\ args = [runs |-> 0]
  /\ ret = NotCalled
  /\ calls = <<>>
  /\ state \in {[ formData |-> [conceptText |-> "learn closures", experienceLevel |-> l,
                                domain |-> d],
                  isSubmitting |-> FALSE, error |-> Null,
                  showDomainMismatch |-> FALSE, domainMismatchData |-> Null ] :
                  l \in ExperienceLevels, d \in FormDomains}

\* handleSubmit: generateProject() with the form's data; setIsSubmitting(true)
\* and setError(null), then the fetch is awaited
handleSubmit ==
  /\ helper = "generateProject"
  /\ args.runs < MaxRuns
  /\ ~state.isSubmitting
  /\ state' = [state EXCEPT !.isSubmitting = TRUE, !.error = Null]
  /\ calls' = <<NewRun(state.formData)>>
  /\ args' = [runs |-> args.runs + 1]
  /\ UNCHANGED <<mainVars, helper, ret>>

\* handleSwitchDomain from the open modal: the domain is replaced, the modal
\* is closed and generateProject(updatedFormData) is started
handleSwitchDomain ==
  /\ helper = "generateProject"
  /\ args.runs < MaxRuns
  /\ state.showDomainMismatch
  /\ ~state.isSubmitting
  /\ \E suggestedDomain \in FormDomains :
       /\ state' = [state EXCEPT !.formData.domain = suggestedDomain,
                                 !.showDomainMismatch = FALSE,
                                 !.isSubmitting = TRUE, !.error = Null]
       /\ calls' = <<NewRun([state.formData EXCEPT !.domain = suggestedDomain])>>
  /\ args' = [runs |-> args.runs + 1]
  /\ UNCHANGED <<mainVars, helper, ret>>

\* fetch rejects: catch sets the error, finally clears isSubmitting
generateProject_FetchRejected ==
  /\ helper = "generateProject"
  /\ \E i \in 1..Len(calls), error \in FormRejections :
       /\ calls[i].pc = "fetch"
       /\ calls' = [calls EXCEPT ![i] =
                      [@ EXCEPT !.pc = "done",
                                !.response = [kind |-> "rejected", error |-> error]]]
       /\ state' = [state EXCEPT !.error = CaughtMessage(error), !.isSubmitting = FALSE]
  /\ UNCHANGED <<mainVars, helper, args, ret>>

\* fetch resolves: response.text() is awaited, whatever the status
generateProject_FetchResolved ==
  /\ helper = "generateProject"
  /\ \E i \in 1..Len(calls), status \in FormStatuses, body \in FormBodies :
       /\ calls[i].pc = "fetch"
       /\ calls' = [calls EXCEPT ![i] =
                      [@ EXCEPT !.pc = "text",
                                !.response = [kind |-> "resolved", status |-> status,
                                              body |-> body, read |-> FALSE]]]
  /\ UNCHANGED <<mainVars, helper, args, ret, state>>

\* response.text() rejects
generateProject_TextRejected ==
  /\ helper = "generateProject"
  /\ \E i \in 1..Len(calls), error \in FormRejections :
       /\ calls[i].pc = "text"
       /\ calls' = [calls EXCEPT ![i] = [@ EXCEPT !.pc = "done"]]
       /\ state' = [state EXCEPT !.error = CaughtMessage(error), !.isSubmitting = FALSE]
  /\ UNCHANGED <<mainVars, helper, args, ret>>

\* response.text() resolves: the rest of the run
generateProject_TextResolved ==
  /\ helper = "generateProject"
  /\ \E i \in 1..Len(calls) :
       /\ calls[i].pc = "text"
       /\ LET r == calls[i].response
              out == AfterText(r.status, r.body)
          IN /\ calls' = [calls EXCEPT ![i] =
                   [@ EXCEPT !.pc = "done",
                             !.response.read = TRUE,
                             !.delivered = IF out.kind = "delivered"
                                           THEN <<[projectData |-> r.body.data,
                                                   experienceLevel |-> calls[i].data.experienceLevel]>>
                                           ELSE <<>>,
                             !.openedModal = (out.kind = "mismatch")]]
             /\ state' =
                  CASE out.kind = "delivered" ->
                         [state EXCEPT !.showDomainMismatch = FALSE,
                                       !.domainMismatchData = Null,
                                       !.isSubmitting = FALSE]
                    [] out.kind = "mismatch" ->
                         [state EXCEPT !.showDomainMismatch = TRUE,
                                       !.domainMismatchData = r.body.data,
                                       !.isSubmitting = FALSE]
                    [] OTHER ->
                         [state EXCEPT !.error = out.message, !.isSubmitting = FALSE]
  /\ UNCHANGED <<mainVars, helper, args, ret>>

NextForm ==
  \/ handleSubmit
  \/ handleSwitchDomain
  \/ generateProject_FetchRejected
  \/ generateProject_FetchResolved
  \/ generateProject_TextRejected
  \/ generateProject_TextResolved

SpecForm == InitForm /\ [][NextForm]_vars

(***************************************************************************)
(* ProjectCard: the milestone completion state of the card and its copy in *)
(* localStorage. state holds the project prop, completedMilestones and     *)
(* localStorage; the load effect runs after the mount and after every      *)
(* change of the project prop.                                             *)
(***************************************************************************)

\* project props: a title and the number of its milestones; '' is a
\* project without a title
CardTitles == {"Blog", "Robot", ""}

CardProjects == {[title |-> t, milestones |-> MaxMilestones] : t \in CardTitles}

\* `milestone_${project.title}_${index}`
milestoneKey(title, index) == "milestone_" \o title \o "_" \o ToString(index)

CardKeys == {milestoneKey(t, i) : t \in CardTitles \ {""}, i \in 0..(MaxMilestones - 1)}

\* localStorage.getItem(key)
getItem(storage, key) == IF key \in DOMAIN storage THEN Str(storage[key]) ELSE Null

\* localStorage.setItem(key, value)
setItem(storage, key, value) == (key :> value) @@ storage

\* the indices the forEach of the load effect pushes, from index on
RECURSIVE savedCompletions(_, _, _)
savedCompletions(project, storage, index) ==
  IF index >= project.milestones THEN <<>>
  ELSE (IF getItem(storage, milestoneKey(project.title, index)) = Str("completed")
        THEN <<index>> ELSE <<>>)
       \o savedCompletions(project, storage, index + 1)

\* the load effect: completedMilestones after it has run
loadEffect(completed, project, storage) ==
  IF project.title = "" THEN completed
  ELSE LET saved == savedCompletions(project, storage, 0)
       IN IF Len(saved) > 0 THEN saved ELSE completed

includes(seq, x) == \E i \in 1..Len(seq) : seq[i] = x

InitCard ==
  /\ MainIdle
  /\ helper = "ProjectCard"
  /\ args = NoArgs
  /\ ret = NotCalled
  /\ calls = <<>>
  /\ \E project \in CardProjects, keys \in SUBSET CardKeys :
       LET storage == [k \in keys |-> "completed"]
       IN state = [ project |-> project,
                    completedMilestones |-> loadEffect(<<>>, project, storage),
                    localStorage |-> storage ]

\* the parent shows another project: the prop changes and the load effect runs
ProjectCard_ProjectChanged ==
  /\ helper = "ProjectCard"
  /\ \E project \in CardProjects \ {state.project} :
       state' = [state EXCEPT
                   !.project = project,
                   !.completedMilestones =
                      loadEffect(state.completedMilestones, project, state.localStorage)]
  /\ UNCHANGED <<mainVars, helper, args, ret, calls>>

\* markComplete(index) of a milestone that is not yet in completedMilestones
markComplete ==
  /\ helper = "ProjectCard"
  /\ \E index \in 0..(state.project.milestones - 1) :
       /\ ~includes(state.completedMilestones, index)
       /\ state' = [state EXCEPT
                      !.completedMilestones = Append(state.completedMilestones, index),
                      !.localStorage =
                         IF state.project.title # ""
                         THEN setItem(state.localStorage,
                                      milestoneKey(state.project.title, index), "completed")
                         ELSE state.localStorage]
  /\ UNCHANGED <<mainVars, helper, args, ret, calls>>

NextCard ==
  \/ ProjectCard_ProjectChanged
  \/ markComplete

SpecCard == InitCard /\ [][NextCard]_vars

---------------------------------------------------------------------------
(* Vocabulary of the properties.                                           *)

MapperDone == pc = "done" /\ service = "mapper"

\* the request never completed
FetchRejectedCase == response.kind = "rejected"

\* the request completed with a status outside 200..299
HttpErrorCase == response.kind = "resolved" /\ ~(response.status \in 200..299)

\* 2xx, and the body is not JSON
ParseFailureCase ==
  /\ response.kind = "resolved"
  /\ response.status \in 200..299
  /\ ~response.body.parses

\* 2xx, the body parsed, and the value has no enhanced_resources array
ShapeFailureCase ==
  /\ response.kind = "resolved"
  /\ response.status \in 200..299
  /\ response.body.parses
  /\ \/ response.body.data.t # "object"
     \/ ~("enhanced_resources" \in DOMAIN response.body.data.v)
     \/ response.body.data.v.enhanced_resources.t # "array"

\* 2xx, the body parsed to an object with an enhanced_resources array
WellFormedCase ==
  /\ response.kind = "resolved"
  /\ response.status \in 200..299
  /\ response.body.parses
  /\ response.body.data.t = "object"
  /\ "enhanced_resources" \in DOMAIN response.body.data.v
  /\ response.body.data.v.enhanced_resources.t = "array"

\* the backend's list in the well-formed case
BackendList == response.body.data.v.enhanced_resources.v

ResultRecords == result.enhanced_resources

\* record i of the result lists input URL i
UrlsInOrder ==
  \A i \in 1..Len(urls) :
    i \in DOMAIN ResultRecords => ResultRecords[i].original_data.url = Str(urls[i])

---------------------------------------------------------------------------
(* C1 *)

\* C1: in both versions of processResources, whenever the batch fails as a
\* whole (fetch rejects, non-2xx status, body does not parse, parsed body is
\* falsy or has no enhanced_resources array) the result holds exactly one
\* record per input URL, count is the number of URLs, and record i carries
\* urls[i] as original_data.url; this includes the empty URL list.
C1_FallbackCardinality ==
  (pc = "done" /\ (FetchRejectedCase \/ HttpErrorCase \/ ParseFailureCase \/ ShapeFailureCase))
    => /\ result.kind = "object"
       /\ Len(ResultRecords) = Len(urls)
       /\ result.count = Len(urls)
       /\ UrlsInOrder

C1_Witness ==
  /\ pc = "done"
  /\ ShapeFailureCase
  /\ Len(urls) = 2
  /\ urls[1] # urls[2]
  /\ Len(ResultRecords) = 2

---------------------------------------------------------------------------
(* C2 *)

\* C2: the mapper-based processResources always settles by resolving to a
\* result object {success, enhanced_resources, count}, whatever the backend
\* did, also when the backend's list holds null or wrong-typed records; it
\* never rejects.
C2_Total ==
  MapperDone
    => /\ result.kind = "object"
       /\ result.success \in BOOLEAN
       /\ result.count \in Nat
       /\ DOMAIN result.enhanced_resources = 1..Len(result.enhanced_resources)

C2_Witness ==
  /\ MapperDone
  /\ WellFormedCase
  /\ \E i \in 1..Len(BackendList) : BackendList[i] = Null
  /\ result.kind = "object"

---------------------------------------------------------------------------
(* C3 *)

\* the cause each batch-scoped failure is reported with
BatchCause ==
  IF FetchRejectedCase
  THEN IF /\ response.error.t = "object"
          /\ "message" \in DOMAIN response.error.v
          /\ response.error.v.message.v # ""
       THEN response.error.v.message
       ELSE Str("Network error")
  ELSE IF HttpErrorCase
  THEN Str("Backend error: " \o ToString(response.status))
  ELSE Str("Unexpected response structure")

\* C3: in the mapper-based processResources a rejected fetch, a non-2xx status
\* and a parsed body without an enhanced_resources array each give
\* success = false and one fallback record per URL whose guidance and content
\* are the cause: the error's message or 'Network error', 'Backend error: S',
\* 'Unexpected response structure'.
C3_BatchCauses ==
  (MapperDone /\ (FetchRejectedCase \/ HttpErrorCase \/ ShapeFailureCase))
    => /\ result.success = FALSE
       /\ Len(ResultRecords) = Len(urls)
       /\ \A i \in 1..Len(ResultRecords) :
            /\ ResultRecords[i].id.prefix = "fallback"
            /\ ResultRecords[i].mentor_context.mentor_guidance = BatchCause
            /\ ResultRecords[i].original_data.content = BatchCause

C3_Witness ==
  /\ MapperDone
  /\ FetchRejectedCase
  /\ response.error = Obj([message |-> Str("")])
  /\ Len(ResultRecords) = 2
  /\ ResultRecords[2].mentor_context.mentor_guidance = Str("Network error")

---------------------------------------------------------------------------
(* C4 *)

\* the cause that made record i a fallback record
TriggeringCause(i) ==
  IF FetchRejectedCase \/ HttpErrorCase \/ ShapeFailureCase THEN BatchCause
  ELSE IF ParseFailureCase THEN Str("JSON parse error")
  ELSE IF \E j \in 1..Len(BackendList) : Nullish(BackendList[j]) THEN Str("JSON parse error")
  ELSE Str("Mapping error: " \o mapBackendResourceToFrontendType(BackendList[i], 0, 0).message)

\* C4: every fallback record the mapper-based processResources returns, on
\* the network, status, parse, shape and per-record mapping paths, has the
\* cause string as its mentor_guidance and the same string as its
\* original_data.content.
C4_CauseInGuidance ==
  MapperDone
    => \A i \in 1..Len(ResultRecords) :
         ResultRecords[i].id.prefix = "fallback"
           => /\ ResultRecords[i].mentor_context.mentor_guidance = TriggeringCause(i)
              /\ ResultRecords[i].original_data.content = TriggeringCause(i)

C4_Witness ==
  /\ MapperDone
  /\ WellFormedCase
  /\ Len(ResultRecords) = 2
  /\ ResultRecords[1].id.prefix = "resource"
  /\ ResultRecords[2].id.prefix = "fallback"
  /\ ResultRecords[2].mentor_context.mentor_guidance =
       Str("Mapping error: (intermediate value).map is not a function")

---------------------------------------------------------------------------
(* C5 *)

\* a backend element the mapper cannot map
Unmappable(e) == mapBackendResourceToFrontendType(e, 0, 0).threw

\* a backend element that is an object and maps without error
Mappable(e) == e.t = "object" /\ ~Unmappable(e)

\* exactly one element of the backend's list is unmappable, the others are
\* mappable objects
OneMalformedElement ==
  /\ WellFormedCase
  /\ Cardinality({i \in 1..Len(BackendList) : Unmappable(BackendList[i])}) = 1
  /\ \A i \in 1..Len(BackendList) : Unmappable(BackendList[i]) \/ Mappable(BackendList[i])

\* C5: when exactly one element of a well-formed payload is malformed (a
\* wrong-typed key_concepts, a null element) and the others are valid, the
\* result has one record per backend element, the record at the malformed
\* position is the only fallback record, and every sibling keeps the url and
\* title the backend sent.
C5_MapperFaultIsolation ==
  (MapperDone /\ OneMalformedElement)
    => /\ Len(ResultRecords) = Len(BackendList)
       /\ \A i \in 1..Len(BackendList) :
            IF Unmappable(BackendList[i])
            THEN ResultRecords[i].id.prefix = "fallback"
            ELSE /\ ResultRecords[i].id.prefix = "resource"
                 /\ ResultRecords[i].enhanced_resource.original_url = Get(BackendList[i], "url")
                 /\ ResultRecords[i].original_data.title = Get(BackendList[i], "title")

---------------------------------------------------------------------------
(* C6 *)

NonEmptyList(x) == x.t = "array" /\ Len(x.v) > 0

\* C6: every record the mapper-based processResources returns has non-empty
\* learning_objectives, practical_applications and next_steps and exactly one
\* common_pitfalls entry, also when the backend record supplies empty lists.
C6_ListsNonEmpty ==
  MapperDone
    => \A i \in 1..Len(ResultRecords) :
         /\ NonEmptyList(ResultRecords[i].enhanced_resource.learning_objectives)
         /\ NonEmptyList(ResultRecords[i].enhanced_resource.practical_applications)
         /\ NonEmptyList(ResultRecords[i].enhanced_resource.next_steps)
         /\ ResultRecords[i].enhanced_resource.common_pitfalls.t = "array"
         /\ Len(ResultRecords[i].enhanced_resource.common_pitfalls.v) = 1

---------------------------------------------------------------------------
(* C7 *)

\* the records of a well-formed payload were mapped one by one: no element
\* of the backend's list is null
MappedCase ==
  /\ WellFormedCase
  /\ \A i \in 1..Len(BackendList) : ~Nullish(BackendList[i])

---------------------------------------------------------------------------
(* C8 *)

\* C8: for a well-formed payload whose list has K elements the result has
\* exactly K records, count = K, and record i comes from backend element i
\* (it carries that element's url), whatever the K elements are.
C8_WellFormedCardinality ==
  (MapperDone /\ WellFormedCase)
    => /\ Len(ResultRecords) = Len(BackendList)
       /\ result.count = Len(BackendList)
       /\ \A i \in 1..Len(BackendList) :
            (i \in DOMAIN ResultRecords /\ ~Nullish(BackendList[i]))
              => ResultRecords[i].enhanced_resource.original_url \in
                   { Or(Get(BackendList[i], "url"), Str("")),
                     Or(Get(BackendList[i], "url"), Str("unknown")) }

---------------------------------------------------------------------------
(* C9 *)

\* the success flag the backend declared, true when it declared none
DeclaredSuccess ==
  IF "success" \in DOMAIN response.body.data.v
  THEN response.body.data.v.success.v
  ELSE TRUE

\* C9: for a well-formed payload the result's success is the backend's
\* success flag, and true when the payload has none, whatever happened to the
\* individual records.
C9_SuccessFollowsFlag ==
  (MapperDone /\ WellFormedCase) => result.success = DeclaredSuccess

---------------------------------------------------------------------------
(* C10 *)

\* C10: an invocation of the mapper-based processResources issues its one
\* request, a POST to /api/process-resources carrying urls, projectContext
\* and projectId, when it is entered, and on no path a second one.
C10_OneRequest ==
  service = "mapper"
    => /\ Len(requests) = 1
       /\ requests[1].method = "POST"
       /\ requests[1].url = "/api/process-resources"
       /\ requests[1].body.urls = urls
       /\ requests[1].body.projectContext = projectContext
       /\ IF projectId = Undef
          THEN DOMAIN requests[1].body = {"urls", "projectContext"}
          ELSE requests[1].body.projectId = projectId

C10_Witness ==
  /\ MapperDone
  /\ FetchRejectedCase
  /\ projectId = Str("p1")
  /\ Len(requests) = 1

---------------------------------------------------------------------------
(* Vocabulary of the properties of mapBackendResourceToFrontendType.       *)

MapperCalled == helper = "mapBackendResourceToFrontendType" /\ ret # NotCalled

\* the call returned a record
Mapped == MapperCalled /\ ~ret[1].outcome.threw

MapperArg == args.backendResource

MapperOut == ret[1].outcome.value

\* the field is written in the object
Has(o, f) == o.t = "object" /\ f \in DOMAIN o.v

\* the enhancement block of the argument, or undefined
ArgEnhanced == Get(MapperArg, "enhanced_content")

NoFollowUpQuestions == Mapped /\ ~Has(ArgEnhanced, "follow_up_questions")

---------------------------------------------------------------------------
(* C11 *)

\* C11 as stated: a record without follow_up_questions gets the
\* sample_questions of createFallbackResource, element by element
C11_SameTemplateAsFallback ==
  NoFollowUpQuestions =>
    MapperOut.mentor_context.sample_questions
      = createFallbackResource(Str("https://a.com/x"), Str("e"), 7001, Random(1))
          .mentor_context.sample_questions

\* C11 amended: a record without follow_up_questions gets three questions,
\* the first is the first question of createFallbackResource and the other
\* two are the mapper's own, different from the fallback's
C11_OwnTemplate ==
  NoFollowUpQuestions =>
    LET q == MapperOut.mentor_context.sample_questions
        f == createFallbackResource(Str("https://a.com/x"), Str("e"), 7001, Random(1))
               .mentor_context.sample_questions
    IN /\ q.t = "array" /\ Len(q.v) = 3 /\ Len(f.v) = 3
       /\ q.v[1] = Str("What is this resource about?") /\ q.v[1] = f.v[1]
       /\ q.v[2] = Str("How can I apply this to my project?") /\ q.v[2] # f.v[2]
       /\ q.v[3] = Str("Are there any prerequisites?") /\ q.v[3] # f.v[3]

C11_Witness ==
  /\ NoFollowUpQuestions
  /\ Has(MapperArg, "enhanced_content")
  /\ Len(MapperOut.mentor_context.sample_questions.v) = 3

---------------------------------------------------------------------------
(* C12 *)

DifficultyLevels == {Str("Beginner"), Str("Intermediate"), Str("Advanced")}

\* C12 as stated: the difficulty_level of every mapped record is Beginner,
\* Intermediate or Advanced, and Beginner when the backend sends none
C12_DifficultyInEnum ==
  Mapped =>
    /\ MapperOut.enhanced_resource.difficulty_level \in DifficultyLevels
    /\ ~Has(ArgEnhanced, "difficulty_assessment")
         => MapperOut.enhanced_resource.difficulty_level = Str("Beginner")

---------------------------------------------------------------------------
(* C13 *)

\* C13: a mapped record has exactly one common_pitfalls entry, the error
\* pair when the record's error field is truthy and the no-pitfalls pair
\* otherwise, whatever else the backend sent
C13_OnePitfall ==
  Mapped =>
    LET e == Get(MapperArg, "error")
        isError == ~(e.t \in {"undefined", "null"} \/ e = Str("") \/ e = Num(0) \/ e = Bool(FALSE))
        p == MapperOut.enhanced_resource.common_pitfalls
    IN /\ p.t = "array" /\ Len(p.v) = 1
       /\ isError => p.v[1] = Obj([pitfall |-> Str("Resource processing error"),
                                   solution |-> Str("Visit the source link directly")])
       /\ ~isError => p.v[1] = Obj([pitfall |-> Str("No specific pitfalls identified"),
                                    solution |-> Str("Follow best practices from the resource")])

C13_Witness ==
  /\ Mapped
  /\ Get(MapperArg, "error") = Str("scrape failed")
  /\ MapperOut.enhanced_resource.common_pitfalls.v[1].v.pitfall = Str("Resource processing error")


---------------------------------------------------------------------------
(* C14 *)

\* the entries of the argument's key_concepts, none when the list is absent
ArgConcepts ==
  IF Get(ArgEnhanced, "key_concepts").t = "array"
  THEN Get(ArgEnhanced, "key_concepts").v
  ELSE <<>>

\* the entry C14 requires for one backend entry
ExpectedConcept(c) ==
  IF c.t = "string"
  THEN Obj([concept |-> c,
            explanation |-> Str("Learn about " \o c.v),
            example |-> Str("Example of " \o c.v)])
  ELSE Obj([concept |-> IF Has(c, "concept") THEN c.v.concept ELSE Str("Unknown Concept"),
            explanation |-> IF Has(c, "explanation") THEN c.v.explanation
                            ELSE Str("No explanation available"),
            example |-> IF Has(c, "example") THEN c.v.example
                        ELSE Str("No example available")])

\* C14: the key_concepts of a mapped record has one entry per backend entry,
\* in the backend's order; a string is expanded with the two templated
\* texts, a structured entry keeps its fields and gets the default text for
\* each missing one, an absent or empty list gives an empty list, and no
\* field of an entry is undefined or null
C14_KeyConcepts ==
  Mapped =>
    LET out == MapperOut.enhanced_resource.key_concepts IN
    /\ out.t = "array"
    /\ Len(out.v) = Len(ArgConcepts)
    /\ \A i \in 1..Len(ArgConcepts) :
         /\ out.v[i] = ExpectedConcept(ArgConcepts[i])
         /\ \A f \in {"concept", "explanation", "example"} :
              Has(out.v[i], f) /\ ~Nullish(out.v[i].v[f])

C14_Witness ==
  /\ Mapped
  /\ Len(ArgConcepts) = 5
  /\ MapperOut.enhanced_resource.key_concepts.v[1].v.explanation = Str("Learn about k1")
  /\ MapperOut.enhanced_resource.key_concepts.v[2].v.explanation = Str("No explanation available")
  /\ MapperOut.enhanced_resource.key_concepts.v[3].v.concept = Str("Unknown Concept")

---------------------------------------------------------------------------
(* C15 *)

---------------------------------------------------------------------------
(* C16 *)

\* C16 as stated: a processed_at of t seconds, 0 included, is mapped to
\* t * 1000 milliseconds, and an absent one to the current time
C16_TimestampConverted ==
  Mapped =>
    /\ Get(MapperArg, "processed_at").t = "number"
         => MapperOut.processed_at = Num(Get(MapperArg, "processed_at").v * 1000)
    /\ ~Has(MapperArg, "processed_at") => MapperOut.processed_at = Num(ret[1].now)

---------------------------------------------------------------------------
(* Vocabulary of the properties of createFallbackResource.                 *)

FallbackCalled == helper = "createFallbackResource" /\ calls # <<>>

\* the hostname the URL standard gives each url of FallbackUrls that parses
HostnameOf ==
  [u \in FallbackUrls |->
     CASE u = "https://example.com/x" -> "example.com"
       [] u = "https://a.com/x" -> "a.com"
       [] u = "https://b.com" -> "b.com"
       [] u = "http://u:p@c.org:8080/p?q#f" -> "c.org"
       [] u = "https:d.io" -> "d.io"
       [] u = "mailto:a@b.com" -> ""
       [] OTHER -> "unknown"]

\* a fallback record without its id, its timestamps and the two fields that
\* hold the cause
WithoutCause(r) ==
  [ original_data |->
      [f \in DOMAIN r.original_data \ {"scraped_at", "content"} |-> r.original_data[f]],
    enhanced_resource |-> r.enhanced_resource,
    mentor_context |->
      [f \in DOMAIN r.mentor_context \ {"mentor_guidance"} |-> r.mentor_context[f]] ]

---------------------------------------------------------------------------
(* C17 *)

\* C17: every call returns a record whose three titles are 'Resource from '
\* followed by the url's hostname, or by 'unknown' when the url does not
\* parse, and repeated calls with the same url give the same titles
C17_HostnameTitles ==
  FallbackCalled =>
    \A i \in 1..Len(calls) :
      LET r == calls[i].value
          t == Str("Resource from " \o HostnameOf[args.url.v])
      IN /\ ParseURL(args.url.v).threw => HostnameOf[args.url.v] = "unknown"
         /\ r.enhanced_resource.title = t
         /\ r.original_data.title = t
         /\ r.mentor_context.resource_title = t
         /\ \A j \in 1..Len(calls) :
              /\ calls[j].value.enhanced_resource.title = r.enhanced_resource.title
              /\ calls[j].value.original_data.title = r.original_data.title
              /\ calls[j].value.mentor_context.resource_title = r.mentor_context.resource_title

C17_Witness ==
  /\ FallbackCalled
  /\ Len(calls) = 2
  /\ args.url = Str("not a url")
  /\ ParseURL(args.url.v).threw
  /\ calls[1].value.id # calls[2].value.id
  /\ calls[2].value.enhanced_resource.title = Str("Resource from unknown")

---------------------------------------------------------------------------
(* C18 *)

\* C18: every call returns difficulty_level Beginner, the three fixed
\* questions and the url in its three url fields, and two calls with the
\* same url differ at most in id, timestamps, content and mentor_guidance,
\* whatever their causes
C18_FallbackShape ==
  FallbackCalled =>
    \A i \in 1..Len(calls) :
      LET r == calls[i].value IN
      /\ r.enhanced_resource.difficulty_level = Str("Beginner")
      /\ r.mentor_context.sample_questions
           = Arr(<<Str("What is this resource about?"),
                   Str("How can I access this content?"),
                   Str("Is there an alternative resource?")>>)
      /\ r.original_data.url = args.url
      /\ r.enhanced_resource.original_url = args.url
      /\ r.mentor_context.resource_url = args.url
      /\ \A j \in 1..Len(calls) : WithoutCause(calls[j].value) = WithoutCause(r)

C18_Witness ==
  /\ FallbackCalled
  /\ Len(calls) = 2
  /\ calls[1].error # calls[2].error
  /\ calls[1].value.mentor_context.mentor_guidance # calls[2].value.mentor_context.mentor_guidance
  /\ calls[1].value.enhanced_resource = calls[2].value.enhanced_resource

---------------------------------------------------------------------------
(* C19 *)

\* the results processResources can return for these urls and this backend
\* response, one per reading of the clock
OwnOutcomes(us, resp) ==
  { IF resp.kind = "rejected"
    THEN FallbackBatch(us, NetworkCause(resp.error), now)
    ELSE IF ~Ok(resp.status)
    THEN FallbackBatch(us, BackendErrorCause(resp.status), now)
    ELSE IF ~resp.body.parses
    THEN FallbackBatch(us, Str("JSON parse error"), now)
    ELSE ParsedOutcome(us, resp.body.data, now) : now \in Times }

\* C19: in every step of two overlapping invocations, at most one
\* invocation's frame changes, the urls and the request of an invocation
\* never change once it is called, and an invocation that finishes returns
\* a result of its own urls and its own backend response (up to the clock
\* reading in ids and timestamps)
C19_Independent ==
  [][ helper = "processResources" =>
        \A i \in Invocations :
          /\ calls'[i] # calls[i] => calls'[Other(i)] = calls[Other(i)]
          /\ calls[i].pc # "idle"
               => calls'[i].urls = calls[i].urls /\ calls'[i].request = calls[i].request
          /\ calls'[i].pc = "done"
               => calls'[i].result \in OwnOutcomes(calls'[i].urls, calls'[i].response) ]_vars

\* both invocations have finished, the second was called while the first
\* was in flight, with other urls, and each has the records of its own urls
C19_Witness ==
  /\ helper = "processResources"
  /\ calls[1].pc = "done" /\ calls[2].pc = "done"
  /\ calls[2].overlapped
  /\ calls[1].urls = <<"https://a.com/x">> /\ calls[2].urls = <<"not a url">>
  /\ calls[1].response.kind = "rejected" /\ calls[2].response.kind = "resolved"
  /\ calls[1].result.enhanced_resources[1].original_data.url = Str("https://a.com/x")
  /\ calls[2].result.enhanced_resources[1].original_data.url = Str("not a url")

---------------------------------------------------------------------------
(* C20 *)

\* C20: after a 2xx response whose body parsed, the mapper-based
\* processResources returns the 'Unexpected response structure' batch, one
\* fallback record per URL, exactly when the parsed value is not a non-null
\* object with an enhanced_resources array; when it is one, with or without
\* a success flag and whatever the elements are, no record carries that
\* cause, and the result has one record per backend element unless an
\* element is null or undefined
C20_WellFormedDecision ==
  (MapperDone /\ response.kind = "resolved" /\ response.status \in 200..299
     /\ response.body.parses)
    => LET data == response.body.data
           wellFormed == /\ data.t = "object"
                         /\ "enhanced_resources" \in DOMAIN data.v
                         /\ data.v.enhanced_resources.t = "array"
       IN /\ ~wellFormed
               => /\ result.success = FALSE
                  /\ result.count = Len(urls)
                  /\ Len(ResultRecords) = Len(urls)
                  /\ \A i \in 1..Len(urls) :
                       /\ ResultRecords[i].id.prefix = "fallback"
                       /\ ResultRecords[i].original_data.url = Str(urls[i])
                       /\ ResultRecords[i].mentor_context.mentor_guidance
                            = Str("Unexpected response structure")
          /\ wellFormed
               => /\ \A i \in 1..Len(ResultRecords) :
                       ResultRecords[i].mentor_context.mentor_guidance
                         # Str("Unexpected response structure")
                  /\ (\A j \in 1..Len(data.v.enhanced_resources.v) :
                        ~Nullish(data.v.enhanced_resources.v[j]))
                       => Len(ResultRecords) = Len(data.v.enhanced_resources.v)

\* a payload without success flag whose only element is a number is mapped
C20_Witness ==
  /\ MapperDone
  /\ WellFormedCase
  /\ ~("success" \in DOMAIN response.body.data.v)
  /\ BackendList = <<Num(42)>>
  /\ Len(urls) = 2
  /\ Len(ResultRecords) = 1
  /\ ResultRecords[1].id.prefix = "resource"

---------------------------------------------------------------------------
(* C21 *)

\* C21: in every result of the mapper-based processResources the records
\* made by createFallbackResource (all records of a full-batch fallback, and
\* the record of an element the mapper threw on) have the id prefix
\* 'fallback', and the records made by mapBackendResourceToFrontendType have
\* the id prefix 'resource', also when the backend record brings an id that
\* looks like a fallback id
C21_Provenance ==
  MapperDone =>
    /\ ~MappedCase
         => \A i \in 1..Len(ResultRecords) : ResultRecords[i].id.prefix = "fallback"
    /\ MappedCase
         => \A i \in 1..Len(ResultRecords) :
              ResultRecords[i].id.prefix
                = IF Unmappable(BackendList[i]) THEN "fallback" ELSE "resource"

C21_Witness ==
  /\ MapperDone
  /\ MappedCase
  /\ BackendList = <<RecFull, RecBadConcepts>>
  /\ Get(RecFull, "id") = Str("fallback-7")
  /\ ResultRecords[1].id.prefix = "resource"
  /\ ResultRecords[1].enhanced_resource.title = Str("A+")
  /\ ResultRecords[2].id.prefix = "fallback"

---------------------------------------------------------------------------
(* C22 *)

InlineDone == pc = "done" /\ service = "inline"

\* the text t occurs in the text s
Mentions(s, t) ==
  \E i \in 1..(Len(s) - Len(t) + 1) : SubSeq(s, i, i + Len(t) - 1) = t

\* C22 as stated: after a non-2xx status S the inline-fallback version
\* returns one fallback record per URL, and the mentor_guidance of each
\* mentions 'Backend error: S'
C22_InlineNamesStatus ==
  (InlineDone /\ HttpErrorCase)
    => /\ Len(ResultRecords) = Len(urls)
       /\ \A i \in 1..Len(ResultRecords) :
            /\ ResultRecords[i].id.prefix = "fallback"
            /\ Mentions(ResultRecords[i].mentor_context.mentor_guidance.v,
                        "Backend error: " \o ToString(response.status))

---------------------------------------------------------------------------
(* C23 *)

\* C23 as stated: the mapper-based processResources returns the full-batch
\* fallback with cause 'JSON parse error' exactly when the status was 2xx
\* and the body did not parse; nothing that happens after a successful parse
\* gives a record that cause
C23_ParseErrorOnlyOnParseFailure ==
  MapperDone =>
    /\ ParseFailureCase
         => /\ result.success = FALSE
            /\ Len(ResultRecords) = Len(urls)
            /\ \A i \in 1..Len(ResultRecords) :
                 /\ ResultRecords[i].id.prefix = "fallback"
                 /\ ResultRecords[i].mentor_context.mentor_guidance = Str("JSON parse error")
    /\ (\E i \in 1..Len(ResultRecords) :
          ResultRecords[i].mentor_context.mentor_guidance = Str("JSON parse error"))
         => ParseFailureCase

---------------------------------------------------------------------------
(* C24 *)

\* C24: in the mapper-based processResources the body of a response is read
\* only after its status was found to be 2xx; after a non-2xx status the
\* body was not read and the result is one fallback record per URL with the
\* cause 'Backend error: <status>', whatever the body is
C24_StatusBeforeBody ==
  service = "mapper" =>
    /\ bodyRead => response.kind = "resolved" /\ response.status \in 200..299
    /\ (pc = "done" /\ HttpErrorCase)
         => /\ ~bodyRead
            /\ result.success = FALSE
            /\ Len(ResultRecords) = Len(urls)
            /\ \A i \in 1..Len(ResultRecords) :
                 /\ ResultRecords[i].id.prefix = "fallback"
                 /\ ResultRecords[i].original_data.url = Str(urls[i])
                 /\ ResultRecords[i].mentor_context.mentor_guidance
                      = Str("Backend error: " \o ToString(response.status))

\* status 500 with a body that is a well-formed payload
C24_Witness ==
  /\ MapperDone
  /\ response.kind = "resolved" /\ response.status = 500
  /\ response.body.parses
  /\ response.body.data = Obj([success |-> Bool(TRUE), enhanced_resources |-> Arr(<<RecFull>>)])
  /\ ~bodyRead
  /\ Len(urls) = 2
  /\ ResultRecords[2].mentor_context.mentor_guidance = Str("Backend error: 500")

---------------------------------------------------------------------------
(* Vocabulary of the properties of getEnhancedResources.                   *)

GetSettled == helper = "getEnhancedResources" /\ ret # NotCalled

GetResponse == calls[1].response

\* 2xx, the body parsed, and the value is an array
StoredArrayCase ==
  /\ GetResponse.kind = "resolved"
  /\ GetResponse.status \in 200..299
  /\ GetResponse.body.parses
  /\ GetResponse.body.data.t = "array"

StoredList == GetResponse.body.data.v

---------------------------------------------------------------------------
(* C25 *)

\* C25: the promise of getEnhancedResources is settled exactly when the call
\* is over, it is never rejected, its value is a list, and the list is empty
\* when fetch rejected, when the status was not 2xx, when the body did not
\* parse and when the parsed body is not an array
C25_AlwaysAnArray ==
  helper = "getEnhancedResources" =>
    /\ (ret # NotCalled) <=> (calls # <<>> /\ calls[1].pc = "done")
    /\ GetSettled
         => /\ ret[1].kind = "resolved"
            /\ DOMAIN ret[1].value = 1..Len(ret[1].value)
            /\ ~StoredArrayCase => ret[1].value = <<>>

C25_Witness ==
  /\ GetSettled
  /\ GetResponse.kind = "resolved" /\ GetResponse.status = 200
  /\ GetResponse.body.parses
  /\ GetResponse.body.data = Obj([enhanced_resources |-> Arr(<<RecStored>>)])
  /\ ret[1] = Resolved(<<>>)

---------------------------------------------------------------------------
(* C26 *)

\* C26 as stated: for a 2xx array of K elements the result has K records in
\* the backend's order; an element with both blocks is returned as it is,
\* an element the mapper throws on (a null element included) is replaced by
\* a fallback record at its position, every other element is mapped
C26_StoredOnePerElement ==
  (GetSettled /\ StoredArrayCase)
    => /\ ret[1].kind = "resolved"
       /\ Len(ret[1].value) = Len(StoredList)
       /\ \A i \in 1..Len(StoredList) :
            LET e == StoredList[i]
                r == ret[1].value[i]
            IN IF /\ e.t = "object"
                  /\ "enhanced_resource" \in DOMAIN e.v
                  /\ "mentor_context" \in DOMAIN e.v
               THEN r = e
               ELSE IF Unmappable(e)
               THEN r.id.prefix = "fallback"
               ELSE /\ r.id.prefix = "resource"
                    /\ r.original_data.url = Or(Get(e, "url"), Str(""))

---------------------------------------------------------------------------
(* Vocabulary of the properties of the hook.                               *)

HookCalled == helper = "useResourceProcessing" /\ calls # <<>>

\* the call started last
LastCall == calls[Len(calls)]

\* no call was started while another was in flight
NoOverlap == \A i \in 1..Len(calls) : ~calls[i].overlapped

---------------------------------------------------------------------------
(* C27 *)

\* C27 as stated: when the second call was started while the first was in
\* flight, loading is true as long as one of them is in flight, and once
\* both are over data is the result of the call started last (null when
\* its service call rejected)
C27_LatestCallWins ==
  (HookCalled /\ Len(calls) = 2 /\ calls[2].overlapped)
    => /\ HookInFlight => state.loading = TRUE
       /\ ~HookInFlight
            => state.data = IF calls[2].settlement.kind = "resolved"
                            THEN calls[2].settlement.value
                            ELSE Null

---------------------------------------------------------------------------
(* C28 *)

\* C28: for calls that do not overlap, loading is true and error is null
\* while the call waits for the service; once it is over loading is false
\* and the call has resolved; after the service resolved, data and the
\* returned value are the result and error is the fixed notice when
\* result.fallback is truthy and null otherwise; after the service rejected,
\* data is null, error is the rejection's message or 'Unknown error', and
\* the call resolved to null
C28_SingleCall ==
  (HookCalled /\ NoOverlap)
    => /\ LastCall.pc = "await" => state.loading = TRUE /\ state.error = Null
       /\ LastCall.pc = "done"
            => /\ state.loading = FALSE
               /\ LastCall.returned.kind = "resolved"
               /\ LastCall.settlement.kind = "resolved"
                    => /\ state.data = LastCall.settlement.value
                       /\ LastCall.returned.value = LastCall.settlement.value
                       /\ LET f == LastCall.settlement.value.v IN
                          IF "fallback" \in DOMAIN f /\ f.fallback = Bool(TRUE)
                          THEN state.error = FallbackNotice
                          ELSE state.error = Null
               /\ LastCall.settlement.kind = "rejected"
                    => /\ state.data = Null
                       /\ LastCall.returned.value = Null
                       /\ LET e == LastCall.settlement.error IN
                          IF e.t = "object" /\ e.v.message # Str("")
                          THEN state.error = e.v.message
                          ELSE state.error = Str("Unknown error")

\* a call that rejected, then a call that got a fallback result
C28_Witness ==
  /\ HookCalled /\ NoOverlap
  /\ Len(calls) = 2
  /\ calls[1].settlement = Rejected(Obj([message |-> Str("boom")]))
  /\ calls[2].pc = "done"
  /\ Get(calls[2].settlement.value, "fallback") = Bool(TRUE)
  /\ state.error = FallbackNotice
  /\ state.data = calls[2].settlement.value
  /\ state.loading = FALSE

---------------------------------------------------------------------------
(* C29 *)

\* the latest run of generateProject is over
RunOver == helper = "generateProject" /\ calls # <<>> /\ calls[1].pc = "done"

CardCompleted == {state.completedMilestones[i] : i \in 1..Len(state.completedMilestones)}

CardStored ==
  {i \in 0..(state.project.milestones - 1) :
     getItem(state.localStorage, milestoneKey(state.project.title, i)) = Str("completed")}

C30_MatchesStorage ==
  (helper = "ProjectCard" /\ state.project.title # "") =>
     /\ Cardinality(CardCompleted) = Len(state.completedMilestones)
     /\ CardCompleted = CardStored

====
